---- MODULE Spec2Model ----
(***************************************************************************)
(* A model of h2.c: the assembler / code generator for the 16-bit stack    *)
(* CPU and the virtual machine (h2_run) that executes the memory image.    *)
(*                                                                         *)
(* h2.h (the opcode constants, the field macros and the mnemonic table     *)
(* X_MACRO_INSTRUCTIONS) is not among the sources; the definitions of the  *)
(* section "h2.h" below are taken from the specification.  Where the       *)
(* specification is silent or contradicts itself the layout is the one     *)
(* under which the 22 case labels of the switch in h2_run are distinct     *)
(* values of ALU_OP(instruction): a five bit operation field in bits 12:8  *)
(* and the R->PC flag in bit 4.                                            *)
(***************************************************************************)
EXTENDS Integers, Sequences, FiniteSets, TLC

(***************************************************************************)
(* Bounds of the model.                                                    *)
(***************************************************************************)
\* statements of the source assembled in one pass (general assembler runs)
MaxStmts == 3
\* statements of a source of colon definitions
MaxDefStmts == 7
\* statements of a source that is assembled and then run
MaxRunStmts == 4
\* literals of a source of literals
MaxLits == 2
\* instructions executed by one h2_run
MaxSteps == 6

MaxHdrStmts == 3

MaxCalls == 3

MaxReads == 2

MaxImgCells == 3

\* statements of a source of if ... else ... then constructs
MaxIfStmts == 6

\* characters of an input of the lexer
MaxChars == 5

\* statements of a source of .mode and .built-in directives
MaxOnceStmts == 5

\* statements of a source of words with headers
MaxChainStmts == 4

\* length up to which every string over PackChars is packed
MaxPackLen == 3

\* statements of a source of labels and jumps
MaxJumpStmts == 2

\* statements of a source of data words, definitions and exit
MaxDataStmts == 3

\* statements of a source that moves pc to the end of the program memory
MaxOverStmts == 3

\* cells of a program run from the initial state of the machine
MaxProgCells == 4

(***************************************************************************)
(* 16-bit arithmetic.                                                      *)
(***************************************************************************)
W16 == 65536

U16(x) == x % W16

S16(x) == IF x >= 32768 THEN x - W16 ELSE x

MAX(a, b) == IF a > b THEN a ELSE b

RECURSIVE AndBits(_, _, _)
AndBits(a, b, n) ==
    IF n = 0 THEN 0
    ELSE (a % 2) * (b % 2) + 2 * AndBits(a \div 2, b \div 2, n - 1)

BitAnd(a, b) == AndBits(a, b, 16)

BitOr(a, b) == a + b - BitAnd(a, b)

BitXor(a, b) == a + b - 2 * BitAnd(a, b)

BitNot(a) == 65535 - a

RECURSIVE Pow2(_)
Pow2(n) == IF n = 0 THEN 1 ELSE 2 * Pow2(n - 1)

Shl(a, n) == a * Pow2(n)

Shr(a, n) == a \div Pow2(n)

(***************************************************************************)
(* h2.h: memory map, opcodes and instruction fields.                       *)
(***************************************************************************)
MAX_PROGRAM == 8192

MAX_MEMORY == 32768

CoreCells == MAX_MEMORY \div 2

START_ADDR == 8

VARIABLE_STACK_START == 8192

RETURN_STACK_START == 8256

OP_BRANCH == 0

OP_0BRANCH == 8192

OP_CALL == 16384

OP_ALU_OP == 24576

OP_LITERAL == 32768

IS_LITERAL(w) == BitAnd(w, 32768) = 32768

IS_BRANCH(w) == BitAnd(w, 57344) = 0

IS_0BRANCH(w) == BitAnd(w, 57344) = 8192

IS_CALL(w) == BitAnd(w, 57344) = 16384

IS_ALU_OP(w) == BitAnd(w, 57344) = 24576

\* an operation field of four bits
ALU_OP_low4(w) == Shr(w, 8) % 16

ALU_OP(w) == Shr(w, 8) % 32

RSTACK(w) == Shr(w, 2) % 4

DSTACK(w) == w % 4

R_TO_PC == 16

N_TO_ADDR_T == 32

T_TO_R == 64

T_TO_N == 128

DELTA_0 == 0

DELTA_1 == 1

DELTA_N2 == 2

DELTA_N1 == 3

MK_DSTACK(d) == d

MK_RSTACK(d) == Shl(d, 2)

MK_CODE(c) == Shl(c, 8)

\* an ALU word from its fields; flags is the sum of the flag bits set
compose(op, d, r, flags) == OP_ALU_OP + MK_CODE(op) + flags + MK_RSTACK(r) + MK_DSTACK(d)

ALU_OP_T == 0
ALU_OP_N == 1
ALU_OP_T_PLUS_N == 2
ALU_OP_T_AND_N == 3
ALU_OP_T_OR_N == 4
ALU_OP_T_XOR_N == 5
ALU_OP_T_INVERT == 6
ALU_OP_T_EQUAL_N == 7
ALU_OP_N_LESS_T == 8
ALU_OP_N_RSHIFT_T == 9
ALU_OP_T_DECREMENT == 10
ALU_OP_R == 11
ALU_OP_T_LOAD == 12
ALU_OP_N_LSHIFT_T == 13
ALU_OP_DEPTH == 14
ALU_OP_N_ULESS_T == 15
ALU_OP_RDEPTH == 16
ALU_OP_T_EQUAL_0 == 17
ALU_OP_TX == 18
ALU_OP_RX == 19
ALU_OP_SAVE == 20
ALU_OP_BYE == 21

\* the mnemonics of X_MACRO_INSTRUCTIONS used by the assembler itself
CODE_DUP == OP_ALU_OP + MK_CODE(ALU_OP_T) + T_TO_N + MK_DSTACK(DELTA_1)

CODE_INVERT == OP_ALU_OP + MK_CODE(ALU_OP_T_INVERT)

CODE_ADD == OP_ALU_OP + MK_CODE(ALU_OP_T_PLUS_N) + MK_DSTACK(DELTA_N1)

CODE_EXIT == OP_ALU_OP + MK_CODE(ALU_OP_T) + R_TO_PC + MK_RSTACK(DELTA_N1)

CODE_TOR ==
    OP_ALU_OP + MK_CODE(ALU_OP_N) + T_TO_R + MK_DSTACK(DELTA_N1) + MK_RSTACK(DELTA_1)

CODE_FROMR ==
    OP_ALU_OP + MK_CODE(ALU_OP_R) + T_TO_N + MK_DSTACK(DELTA_1) + MK_RSTACK(DELTA_N1)

CODE_RDROP == OP_ALU_OP + MK_CODE(ALU_OP_T) + MK_RSTACK(DELTA_N1)

CODE_BYE == OP_ALU_OP + MK_CODE(ALU_OP_BYE)

CODE_LOAD == OP_ALU_OP + MK_CODE(ALU_OP_T_LOAD)

CODE_T_N1 == OP_ALU_OP + MK_CODE(ALU_OP_T_DECREMENT)

(***************************************************************************)
(* The memory array h->core.  calloc zeroes it; the model keeps the cells  *)
(* that were written and reads every other cell as 0.                      *)
(***************************************************************************)
Rd(c, a) == IF a \in DOMAIN c THEN c[a] ELSE 0

Wr(c, a, v) == [x \in (DOMAIN c) \cup {a} |-> IF x = a THEN v ELSE c[x]]

InCore(a) == a >= 0 /\ a < CoreCells

\* h2_new: pc at the start address, the cells below it branch to it
\* h2_new with the entry vector left zeroed
h2_new_zeroed(start_address) ==
    [core |-> [i \in 0 .. start_address - 1 |-> 0],
     pc   |-> start_address,
     tos  |-> 0,
     sp   |-> VARIABLE_STACK_START,
     rp   |-> RETURN_STACK_START]

h2_new(start_address) ==
    [core |-> [i \in 0 .. start_address - 1 |-> BitOr(OP_BRANCH, start_address)],
     pc   |-> start_address,
     tos  |-> 0,
     sp   |-> VARIABLE_STACK_START,
     rp   |-> RETURN_STACK_START]

(***************************************************************************)
(* The virtual machine.  A machine is the record of the h2_t fields        *)
(* [core, pc, tos, sp, rp]; Exec is one iteration of the loop of h2_run.   *)
(***************************************************************************)
EOF == -1

ESCAPE == 27

dpush(m, v) ==
    LET sp1 == U16(m.sp + 1)
    IN  [m EXCEPT !.sp = sp1, !.core = Wr(m.core, sp1, m.tos), !.tos = v]

\* dpop leaves the popped value to its caller, which reads m.tos beforehand
\* dpop that leaves sp where it is
dpop_keep(m) == [m EXCEPT !.tos = Rd(m.core, m.sp)]

dpop(m) == [m EXCEPT !.tos = Rd(m.core, m.sp), !.sp = U16(m.sp - 1)]

\* rpush that overwrites the top of the return stack
rpush_in_place(m, r) == [m EXCEPT !.core = Wr(m.core, m.rp, r)]

rpush(m, r) ==
    LET rp1 == U16(m.rp + 1)
    IN  [m EXCEPT !.rp = rp1, !.core = Wr(m.core, rp1, r)]

stack_delta(d) ==
    CASE d = 0 -> 0
      [] d = 1 -> 1
      [] d = 2 -> 65534
      [] d = 3 -> 65535

Bool16(b) == IF b THEN 65535 ELSE 0

\* the shifts of the switch are done in int: a count of 32 or more, or a left
\* shift whose result does not fit an int, has no defined result
ShiftUndefined(op, tos, nos) ==
    \/ op = ALU_OP_N_RSHIFT_T /\ tos >= 32
    \/ op = ALU_OP_N_LSHIFT_T /\ (tos >= 32 \/ (tos >= 16 /\ nos >= Pow2(31 - tos)))

\* the new top of stack computed by the switch of h2_run; ch is what getch
\* delivers to an RX
alu_tos(m, op, ch) ==
    LET tos == m.tos
        nos == Rd(m.core, m.sp)
    IN  CASE op = ALU_OP_T -> tos
          [] op = ALU_OP_N -> nos
          [] op = ALU_OP_T_PLUS_N -> U16(tos + nos)
          [] op = ALU_OP_T_AND_N -> BitAnd(tos, nos)
          [] op = ALU_OP_T_OR_N -> BitOr(tos, nos)
          [] op = ALU_OP_T_XOR_N -> BitXor(tos, nos)
          [] op = ALU_OP_T_INVERT -> BitNot(tos)
          [] op = ALU_OP_T_EQUAL_N -> Bool16(tos = nos)
          [] op = ALU_OP_N_LESS_T -> Bool16(S16(nos) < S16(tos))
          [] op = ALU_OP_N_RSHIFT_T -> IF tos >= 32 THEN 0 ELSE Shr(nos, tos)
          [] op = ALU_OP_T_DECREMENT -> U16(tos - 1)
          [] op = ALU_OP_R -> Rd(m.core, m.rp)
          [] op = ALU_OP_T_LOAD -> Rd(m.core, Shr(m.tos, 1))
          [] op = ALU_OP_N_LSHIFT_T -> IF tos >= 16 THEN 0 ELSE U16(Shl(nos, tos))
          [] op = ALU_OP_DEPTH -> U16(m.sp - VARIABLE_STACK_START)
          [] op = ALU_OP_N_ULESS_T -> Bool16(nos < tos)
          [] op = ALU_OP_RDEPTH -> U16(m.rp - RETURN_STACK_START)
          [] op = ALU_OP_T_EQUAL_0 -> Bool16(tos = 0)
          [] op = ALU_OP_TX -> nos
          [] op = ALU_OP_RX -> U16(ch)
          [] OTHER -> tos

\* the cells one ALU instruction reads or writes
alu_indices(m, w) ==
    LET sp1 == U16(m.sp + stack_delta(DSTACK(w)))
        rp1 == U16(m.rp + stack_delta(RSTACK(w)))
    IN  {m.sp}
        \cup (IF BitAnd(w, R_TO_PC) # 0 \/ ALU_OP(w) = ALU_OP_R THEN {m.rp} ELSE {})
        \cup (IF ALU_OP(w) = ALU_OP_T_LOAD \/ BitAnd(w, N_TO_ADDR_T) # 0
              THEN {Shr(m.tos, 1)} ELSE {})
        \cup (IF BitAnd(w, T_TO_R) # 0 THEN {rp1} ELSE {})
        \cup (IF BitAnd(w, T_TO_N) # 0 THEN {sp1} ELSE {})

Result(m, st, ret, out, sv) == [m |-> m, st |-> st, ret |-> ret, out |-> out, save |-> sv]

\* exec_alu whose BYE returns the second stack item
exec_alu_bye_nos(m, w, pc_plus_one, ch) ==
    LET op  == ALU_OP(w)
        rd  == stack_delta(RSTACK(w))
        dd  == stack_delta(DSTACK(w))
        nos == Rd(m.core, m.sp)
        npc == IF BitAnd(w, R_TO_PC) # 0 THEN Shr(Rd(m.core, m.rp), 1) ELSE pc_plus_one
        tos == alu_tos(m, op, ch)
        sp1 == U16(m.sp + dd)
        rp1 == U16(m.rp + rd)
        c1  == IF BitAnd(w, T_TO_R) # 0 THEN Wr(m.core, rp1, m.tos) ELSE m.core
        c2  == IF BitAnd(w, T_TO_N) # 0 THEN Wr(c1, sp1, m.tos) ELSE c1
        c3  == IF BitAnd(w, N_TO_ADDR_T) # 0 THEN Wr(c2, Shr(m.tos, 1), nos) ELSE c2
        out == IF op = ALU_OP_TX THEN <<m.tos % 256>> ELSE <<>>
    IN  IF ~InCore(m.sp) \/ (BitAnd(w, R_TO_PC) # 0 /\ ~InCore(m.rp))
        THEN Result(m, "undefined", 0, <<>>, FALSE)
        ELSE IF op = ALU_OP_BYE THEN Result(m, "returned", nos, <<>>, FALSE)
        ELSE IF op = ALU_OP_RX /\ ch \in {EOF, ESCAPE}
        THEN Result(m, "exited", 0, <<>>, FALSE)
        ELSE IF (\E a \in alu_indices(m, w) : ~InCore(a))
                \/ ShiftUndefined(op, m.tos, nos)
        THEN Result(m, "undefined", 0, <<>>, FALSE)
        ELSE Result([core |-> c3, pc |-> npc, tos |-> tos, sp |-> sp1, rp |-> rp1],
                    "running", 0, out, op = ALU_OP_SAVE)
\* exec_alu that does the three stores before sp and rp are adjusted
exec_alu_stores_first(m, w, pc_plus_one, ch) ==
    LET op  == ALU_OP(w)
        nos == Rd(m.core, m.sp)
        npc == IF BitAnd(w, R_TO_PC) # 0 THEN Shr(Rd(m.core, m.rp), 1) ELSE pc_plus_one
        c1  == IF BitAnd(w, T_TO_R) # 0 THEN Wr(m.core, m.rp, m.tos) ELSE m.core
        c2  == IF BitAnd(w, T_TO_N) # 0 THEN Wr(c1, m.sp, m.tos) ELSE c1
        c3  == IF BitAnd(w, N_TO_ADDR_T) # 0 THEN Wr(c2, Shr(m.tos, 1), nos) ELSE c2
    IN  IF ~InCore(m.sp) \/ (BitAnd(w, R_TO_PC) # 0 /\ ~InCore(m.rp))
        THEN Result(m, "undefined", 0, <<>>, FALSE)
        ELSE IF op = ALU_OP_BYE THEN Result(m, "returned", m.tos, <<>>, FALSE)
        ELSE IF op = ALU_OP_RX /\ ch \in {EOF, ESCAPE}
        THEN Result(m, "exited", 0, <<>>, FALSE)
        ELSE IF (\E a \in alu_indices(m, w) : ~InCore(a))
                \/ ShiftUndefined(op, m.tos, nos)
        THEN Result(m, "undefined", 0, <<>>, FALSE)
        ELSE Result([core |-> c3, pc |-> npc, tos |-> alu_tos(m, op, ch),
                     sp |-> U16(m.sp + stack_delta(DSTACK(w))),
                     rp |-> U16(m.rp + stack_delta(RSTACK(w)))],
                    "running", 0, IF op = ALU_OP_TX THEN <<m.tos % 256>> ELSE <<>>,
                    op = ALU_OP_SAVE)

\* exec_alu whose BYE returns after the stack deltas, the stores and the new pc
exec_alu_bye_commits(m, w, pc_plus_one, ch) ==
    LET op  == ALU_OP(w)
        nos == Rd(m.core, m.sp)
        npc == IF BitAnd(w, R_TO_PC) # 0 THEN Shr(Rd(m.core, m.rp), 1) ELSE pc_plus_one
        sp1 == U16(m.sp + stack_delta(DSTACK(w)))
        rp1 == U16(m.rp + stack_delta(RSTACK(w)))
        c1  == IF BitAnd(w, T_TO_R) # 0 THEN Wr(m.core, rp1, m.tos) ELSE m.core
        c2  == IF BitAnd(w, T_TO_N) # 0 THEN Wr(c1, sp1, m.tos) ELSE c1
        c3  == IF BitAnd(w, N_TO_ADDR_T) # 0 THEN Wr(c2, Shr(m.tos, 1), nos) ELSE c2
    IN  IF ~InCore(m.sp) \/ (BitAnd(w, R_TO_PC) # 0 /\ ~InCore(m.rp))
        THEN Result(m, "undefined", 0, <<>>, FALSE)
        ELSE IF op = ALU_OP_RX /\ ch \in {EOF, ESCAPE}
        THEN Result(m, "exited", 0, <<>>, FALSE)
        ELSE IF (\E a \in alu_indices(m, w) : ~InCore(a))
                \/ ShiftUndefined(op, m.tos, nos)
        THEN Result(m, "undefined", 0, <<>>, FALSE)
        ELSE Result([core |-> c3, pc |-> npc, tos |-> alu_tos(m, op, ch),
                     sp |-> sp1, rp |-> rp1],
                    IF op = ALU_OP_BYE THEN "returned" ELSE "running",
                    IF op = ALU_OP_BYE THEN m.tos ELSE 0,
                    IF op = ALU_OP_TX THEN <<m.tos % 256>> ELSE <<>>,
                    op = ALU_OP_SAVE)

exec_alu(m, w, pc_plus_one, ch) ==
    LET op  == ALU_OP(w)
        rd  == stack_delta(RSTACK(w))
        dd  == stack_delta(DSTACK(w))
        nos == Rd(m.core, m.sp)
        npc == IF BitAnd(w, R_TO_PC) # 0 THEN Shr(Rd(m.core, m.rp), 1) ELSE pc_plus_one
        tos == alu_tos(m, op, ch)
        sp1 == U16(m.sp + dd)
        rp1 == U16(m.rp + rd)
        c1  == IF BitAnd(w, T_TO_R) # 0 THEN Wr(m.core, rp1, m.tos) ELSE m.core
        c2  == IF BitAnd(w, T_TO_N) # 0 THEN Wr(c1, sp1, m.tos) ELSE c1
        c3  == IF BitAnd(w, N_TO_ADDR_T) # 0 THEN Wr(c2, Shr(m.tos, 1), nos) ELSE c2
        out == IF op = ALU_OP_TX THEN <<m.tos % 256>> ELSE <<>>
    IN  IF ~InCore(m.sp) \/ (BitAnd(w, R_TO_PC) # 0 /\ ~InCore(m.rp))
        THEN Result(m, "undefined", 0, <<>>, FALSE)
        ELSE IF op = ALU_OP_BYE THEN Result(m, "returned", m.tos, <<>>, FALSE)
        ELSE IF op = ALU_OP_RX /\ ch \in {EOF, ESCAPE}
        THEN Result(m, "exited", 0, <<>>, FALSE)
        ELSE IF (\E a \in alu_indices(m, w) : ~InCore(a))
                \/ ShiftUndefined(op, m.tos, nos)
        THEN Result(m, "undefined", 0, <<>>, FALSE)
        ELSE Result([core |-> c3, pc |-> npc, tos |-> tos, sp |-> sp1, rp |-> rp1],
                    "running", 0, out, op = ALU_OP_SAVE)

\* the increment without the wrap
PcPlusOne_linear(p) == U16(p + 1)

\* pc_plus_one = (h->pc + 1) % MAX_PROGRAM
PcPlusOne(p) == (p + 1) % MAX_PROGRAM

Exec(m, ch) ==
    IF ~InCore(m.pc) THEN Result(m, "undefined", 0, <<>>, FALSE)
    ELSE
    LET instruction == Rd(m.core, m.pc)
        literal     == BitAnd(instruction, 32767)
        address     == BitAnd(instruction, 8191)
        pc_plus_one == PcPlusOne(m.pc)
    IN  IF IS_LITERAL(instruction)
        THEN IF ~InCore(U16(m.sp + 1)) THEN Result(m, "undefined", 0, <<>>, FALSE)
             ELSE Result([dpush(m, literal) EXCEPT !.pc = pc_plus_one],
                         "running", 0, <<>>, FALSE)
        ELSE IF IS_ALU_OP(instruction)
        THEN exec_alu(m, instruction, pc_plus_one, ch)
        ELSE IF IS_CALL(instruction)
        THEN IF ~InCore(U16(m.rp + 1)) THEN Result(m, "undefined", 0, <<>>, FALSE)
             ELSE Result([rpush(m, U16(Shl(pc_plus_one, 1))) EXCEPT !.pc = address],
                         "running", 0, <<>>, FALSE)
        ELSE IF IS_0BRANCH(instruction)
        THEN IF ~InCore(m.sp) THEN Result(m, "undefined", 0, <<>>, FALSE)
             ELSE Result([dpop(m) EXCEPT !.pc = IF m.tos = 0 THEN address % MAX_PROGRAM
                                                ELSE pc_plus_one],
                         "running", 0, <<>>, FALSE)
        ELSE Result([m EXCEPT !.pc = address], "running", 0, <<>>, FALSE)

(***************************************************************************)
(* The assembler.  An emitter state is the record                          *)
(*   [core, pc, fence, rw, abort]                                          *)
(* of h->core, h->pc and a->fence, the peephole rewrites done while the    *)
(* current statement is assembled (cell, fence before the rewrite, kind)   *)
(* and whether an assert of here / hole / fix has failed.                  *)
(***************************************************************************)
MODE_NORMAL == 0

MODE_COMPILE_WORD_HEADER == 1

MODE_OPTIMIZATION_ON == 2

DEFINE_HIDDEN == 1

DEFINE_IMMEDIATE == 2

DEFINE_INLINE == 4

\* update_fence assigning the fence instead of taking the maximum
update_fence_assign(fence, pc) == pc

update_fence(fence, pc) == MAX(fence, pc)

Emit(A, instruction, f1) ==
    [A EXCEPT !.core = Wr(A.core, A.pc, instruction),
              !.pc = U16(A.pc + 1),
              !.fence = f1]

\* generate merging CODE_EXIT into any previous ALU cell, whatever the fence
generate_merge_any(A, mode, instruction) ==
    LET f1 == IF IS_CALL(instruction) \/ IS_LITERAL(instruction)
                 \/ IS_0BRANCH(instruction) \/ IS_BRANCH(instruction)
              THEN update_fence(A.fence, A.pc) ELSE A.fence
        previous == Rd(A.core, A.pc - 1)
        opt == BitAnd(mode, MODE_OPTIMIZATION_ON) # 0 /\ A.pc # 0
    IN  IF opt /\ IS_ALU_OP(previous) /\ instruction = CODE_EXIT
        THEN IF BitAnd(previous, R_TO_PC) = 0 /\ BitAnd(previous, MK_RSTACK(DELTA_N1)) = 0
             THEN [A EXCEPT !.core = Wr(A.core, A.pc - 1, BitOr(previous, instruction)),
                            !.fence = update_fence(f1, A.pc - 1),
                            !.rw = @ \cup {[cell |-> A.pc - 1, fence |-> f1, kind |-> "merge"]}]
             ELSE Emit(A, instruction, f1)
        ELSE IF opt /\ A.pc > f1 /\ IS_CALL(previous) /\ instruction = CODE_EXIT
        THEN [A EXCEPT !.core = Wr(A.core, A.pc - 1, BitOr(OP_BRANCH, BitAnd(previous, 8191))),
                       !.fence = update_fence(f1, A.pc - 1),
                       !.rw = @ \cup {[cell |-> A.pc - 1, fence |-> f1, kind |-> "tailcall"]}]
        ELSE Emit(A, instruction, f1)

\* generate without the tail-call rewrite
generate_no_tailcall(A, mode, instruction) ==
    LET f1 == IF IS_CALL(instruction) \/ IS_LITERAL(instruction)
                 \/ IS_0BRANCH(instruction) \/ IS_BRANCH(instruction)
              THEN update_fence(A.fence, A.pc) ELSE A.fence
        previous == Rd(A.core, A.pc - 1)
        opt == BitAnd(mode, MODE_OPTIMIZATION_ON) # 0 /\ A.pc # 0
    IN  IF opt /\ (A.pc - 1) > f1 /\ IS_ALU_OP(previous) /\ instruction = CODE_EXIT
           /\ BitAnd(previous, R_TO_PC) = 0 /\ BitAnd(previous, MK_RSTACK(DELTA_N1)) = 0
        THEN [A EXCEPT !.core = Wr(A.core, A.pc - 1, BitOr(previous, instruction)),
                       !.fence = update_fence(f1, A.pc - 1),
                       !.rw = @ \cup {[cell |-> A.pc - 1, fence |-> f1, kind |-> "merge"]}]
        ELSE Emit(A, instruction, f1)

\* generate with both peephole tests off by one against the fence
generate_at_fence(A, mode, instruction) ==
    LET f1 == IF IS_CALL(instruction) \/ IS_LITERAL(instruction)
                 \/ IS_0BRANCH(instruction) \/ IS_BRANCH(instruction)
              THEN update_fence(A.fence, A.pc) ELSE A.fence
        previous == Rd(A.core, A.pc - 1)
        opt == BitAnd(mode, MODE_OPTIMIZATION_ON) # 0 /\ A.pc # 0
    IN  IF opt /\ (A.pc - 1) >= f1 /\ IS_ALU_OP(previous) /\ instruction = CODE_EXIT
        THEN IF BitAnd(previous, R_TO_PC) = 0 /\ BitAnd(previous, MK_RSTACK(DELTA_N1)) = 0
             THEN [A EXCEPT !.core = Wr(A.core, A.pc - 1, BitOr(previous, instruction)),
                            !.fence = update_fence(f1, A.pc - 1),
                            !.rw = @ \cup {[cell |-> A.pc - 1, fence |-> f1, kind |-> "merge"]}]
             ELSE Emit(A, instruction, f1)
        ELSE IF opt /\ A.pc >= f1 /\ IS_CALL(previous) /\ instruction = CODE_EXIT
        THEN [A EXCEPT !.core = Wr(A.core, A.pc - 1, BitOr(OP_BRANCH, BitAnd(previous, 8191))),
                       !.fence = update_fence(f1, A.pc - 1),
                       !.rw = @ \cup {[cell |-> A.pc - 1, fence |-> f1, kind |-> "tailcall"]}]
        ELSE Emit(A, instruction, f1)

generate(A, mode, instruction) ==
    LET f1 == IF IS_CALL(instruction) \/ IS_LITERAL(instruction)
                 \/ IS_0BRANCH(instruction) \/ IS_BRANCH(instruction)
              THEN update_fence(A.fence, A.pc)
              ELSE A.fence
        previous == Rd(A.core, A.pc - 1)
        opt == BitAnd(mode, MODE_OPTIMIZATION_ON) # 0 /\ A.pc # 0
    IN  IF opt /\ (A.pc - 1) > f1 /\ IS_ALU_OP(previous) /\ instruction = CODE_EXIT
        THEN IF BitAnd(previous, R_TO_PC) = 0
                /\ BitAnd(previous, MK_RSTACK(DELTA_N1)) = 0
             THEN [A EXCEPT !.core = Wr(A.core, A.pc - 1, BitOr(previous, instruction)),
                            !.fence = update_fence(f1, A.pc - 1),
                            !.rw = @ \cup {[cell |-> A.pc - 1, fence |-> f1,
                                            kind |-> "merge"]}]
             ELSE Emit(A, instruction, f1)
        ELSE IF opt /\ A.pc > f1 /\ IS_CALL(previous) /\ instruction = CODE_EXIT
        THEN [A EXCEPT !.core = Wr(A.core, A.pc - 1,
                                    BitOr(OP_BRANCH, BitAnd(previous, 8191))),
                       !.fence = update_fence(f1, A.pc - 1),
                       !.rw = @ \cup {[cell |-> A.pc - 1, fence |-> f1,
                                       kind |-> "tailcall"]}]
        ELSE Emit(A, instruction, f1)

\* here that leaves the fence where it is
here_no_fence(A) == [A EXCEPT !.abort = @ \/ ~(A.pc < MAX_PROGRAM)]

\* here returns A.pc; hole returns A.pc and steps over the cell
here(A) ==
    [A EXCEPT !.fence = update_fence(A.fence, A.pc),
              !.abort = @ \/ ~(A.pc < MAX_PROGRAM)]

hole(A) == [here(A) EXCEPT !.pc = U16(A.pc + 1)]

fix(A, h, patch) ==
    IF h < MAX_PROGRAM THEN [A EXCEPT !.core = Wr(A.core, h, patch)]
    ELSE [A EXCEPT !.abort = TRUE]

\* generate_literal without the complement and CODE_INVERT for bit 15
generate_literal_plain(A, mode, number) ==
    generate(A, mode, BitOr(OP_LITERAL, number))

generate_literal(A, mode, number) ==
    IF BitAnd(number, OP_LITERAL) # 0
    THEN generate(generate(A, mode, BitOr(OP_LITERAL, BitNot(number))), mode, CODE_INVERT)
    ELSE generate(A, mode, BitOr(OP_LITERAL, number))

(***************************************************************************)
(* Tokens, names and the symbol table.  A name is the sequence of its      *)
(* character codes.                                                        *)
(***************************************************************************)
NoTok == [type |-> "none", id |-> <<>>, number |-> 0]

TokLit(n) == [type |-> "literal", id |-> <<>>, number |-> n]

TokId(name) == [type |-> "identifier", id |-> name, number |-> 0]

St(op, tok, val, bits) == [op |-> op, tok |-> tok, val |-> val, bits |-> bits]

\* index of the first entry with this id, 0 when there is none
symbol_table_lookup(t, id) ==
    IF \E i \in 1 .. Len(t) : t[i].id = id
    THEN CHOOSE i \in 1 .. Len(t) :
            t[i].id = id /\ \A j \in 1 .. i - 1 : t[j].id # id
    ELSE 0

\* symbol_table_add without the lookup
symbol_table_add_any(t, type, id, value, hidden) ==
    [t |-> Append(t, [id |-> id, value |-> value, type |-> type, hidden |-> hidden]),
     r |-> 0]

\* symbol_table_add: [t, r]; r = -1 is the redefinition error, which every caller
\* in h2.c turns into ethrow, and leaves the table as it was
symbol_table_add(t, type, id, value, hidden) ==
    IF symbol_table_lookup(t, id) # 0
    THEN [t |-> t, r |-> -1]
    ELSE [t |-> Append(t, [id |-> id, value |-> value, type |-> type, hidden |-> hidden]),
          r |-> 0]

(***************************************************************************)
(* State.                                                                  *)
(***************************************************************************)
VARIABLES
    core, pc, tos, sp, rp,          \* h2_t
    fence, mode, pwd, in_definition, built_in_words_defined,   \* assembler_t
    symbols,                        \* the symbol table
    ctl,                            \* the open constructs: the frames of assemble()
    src,                            \* the statements assembled so far
    rw,                             \* peephole rewrites done by the last statement
    phase,                          \* "asm", "error", "abort", "saved", "run", ...
    block,                          \* the file FORTH_BLOCK
    load_r,                         \* what load returned
    steps, ret, out,                \* h2_run: iterations, return value, putch output
    rx,                             \* getch: the values read, and those handed on
    drv,                            \* unix.c main: the handle, the calls of embed_vm
    lex,                            \* lexer_t: input left, id, in_definition, tokens
    char_signed                     \* the build: whether plain char is a signed type

hvars == <<core, pc, tos, sp, rp>>

avars == <<fence, mode, pwd, in_definition, built_in_words_defined, symbols, ctl, src, rw>>

rvars == <<load_r, steps, ret, out, rx, drv, lex, char_signed>>

vars == <<hvars, avars, phase, block, rvars>>

NoBlock == [exists |-> FALSE, bytes |-> <<>>]

NoRx == [read |-> <<>>, got |-> <<>>]

NoDrv == [h |-> 0, passed |-> <<>>, rets |-> <<>>]

NoLex == [input |-> <<>>, id |-> <<>>, in_definition |-> FALSE, tokens |-> <<>>]

\* code(): memset(&a, 0), a fresh symbol table, h2_new(START_ADDR), a.fence = h->pc
\* (char_signed: no name of the sources assembled from here has 128 characters or
\* more, so that both kinds of build pack the same cells)
Init ==
    /\ core = h2_new(START_ADDR).core
    /\ pc = h2_new(START_ADDR).pc
    /\ tos = h2_new(START_ADDR).tos
    /\ sp = h2_new(START_ADDR).sp
    /\ rp = h2_new(START_ADDR).rp
    /\ fence = h2_new(START_ADDR).pc
    /\ mode = MODE_NORMAL
    /\ pwd = 0
    /\ in_definition = FALSE
    /\ built_in_words_defined = FALSE
    /\ symbols = <<>>
    /\ ctl = <<>>
    /\ src = <<>>
    /\ rw = {}
    /\ phase = "asm"
    /\ block = NoBlock
    /\ load_r = 0
    /\ steps = 0
    /\ ret = 0
    /\ out = <<>>
    /\ rx = NoRx
    /\ drv = NoDrv
    /\ lex = NoLex
    /\ char_signed = TRUE

A0 == [core |-> core, pc |-> pc, fence |-> fence, rw |-> {}, abort |-> FALSE]

Top == ctl[Len(ctl)]

Pop == SubSeq(ctl, 1, Len(ctl) - 1)

Frame(k, h) == [k |-> k, h |-> h]

\* the end of one statement: the emitter state A is stored, an assembly error
\* (ethrow) or a failed assert ends the pass
CommitVars(st, A, err, syms, stack, md, pw, indef) ==
    \E E \in {A} :
        /\ src' = Append(src, st)
        /\ core' = E.core
        /\ pc' = E.pc
        /\ fence' = E.fence
        /\ rw' = E.rw
        /\ phase' = IF E.abort THEN "abort" ELSE IF err THEN "error" ELSE "asm"
        /\ symbols' = syms
        /\ ctl' = stack
        /\ mode' = md
        /\ pwd' = pw
        /\ in_definition' = indef

Commit(st, A, err, syms, stack, md, pw, indef) ==
    /\ CommitVars(st, A, err, syms, stack, md, pw, indef)
    /\ UNCHANGED <<tos, sp, rp, built_in_words_defined, block, rvars>>

Keep(st, A, err) == Commit(st, A, err, symbols, ctl, mode, pwd, in_definition)

\* assemble(): if(h->pc > MAX_PROGRAM) assembly_error
Overflow == pc > MAX_PROGRAM

SYM_LABEL(id) ==
    /\ phase = "asm"
    /\ LET A1  == here(A0)
           add == symbol_table_add(symbols, "label", id, pc, FALSE)
       IN  IF Overflow THEN Keep(St("label", TokId(id), NoTok, 0), A0, TRUE)
           ELSE Commit(St("label", TokId(id), NoTok, 0), A1, add.r # 0,
                       IF A1.abort THEN symbols ELSE add.t,
                       ctl, mode, pwd, in_definition)

\* generate_jump: [A, err]
\* generate_jump without the test of the symbol's type
generate_jump_untyped(A, md, t, tok, type) ==
    LET i    == symbol_table_lookup(t, tok.id)
        addr == IF tok.type = "literal" THEN tok.number
                ELSE IF i = 0 THEN 0 ELSE t[i].value
        or   == CASE type = "branch" -> OP_BRANCH
                  [] type = "0branch" -> OP_0BRANCH
                  [] type = "call" -> OP_CALL
    IN  IF tok.type # "literal" /\ i = 0 THEN [A |-> A, err |-> TRUE]
        ELSE IF addr > MAX_PROGRAM THEN [A |-> A, err |-> TRUE]
        ELSE [A |-> generate(A, md, BitOr(or, addr)), err |-> FALSE]

generate_jump(A, md, t, tok, type) ==
    LET i    == symbol_table_lookup(t, tok.id)
        addr == IF tok.type = "literal" THEN tok.number
                ELSE IF i = 0 THEN 0 ELSE t[i].value
        or   == CASE type = "branch" -> OP_BRANCH
                  [] type = "0branch" -> OP_0BRANCH
                  [] type = "call" -> OP_CALL
    IN  IF tok.type # "literal" /\ i = 0 THEN [A |-> A, err |-> TRUE]
        ELSE IF tok.type # "literal" /\ t[i].type = "call" /\ type # "call"
        THEN [A |-> A, err |-> TRUE]
        ELSE IF addr > MAX_PROGRAM THEN [A |-> A, err |-> TRUE]
        ELSE [A |-> generate(A, md, BitOr(or, addr)), err |-> FALSE]

\* SYM_BRANCH, SYM_0BRANCH, SYM_CALL
SYM_JUMP(type, tok) ==
    /\ phase = "asm"
    /\ LET r == generate_jump(A0, mode, symbols, tok, type)
       IN  IF Overflow THEN Keep(St(type, tok, NoTok, 0), A0, TRUE)
           ELSE Keep(St(type, tok, NoTok, 0), r.A, r.err)

SYM_LITERAL(n) ==
    /\ phase = "asm"
    /\ IF Overflow THEN Keep(St("literal", TokLit(n), NoTok, 0), A0, TRUE)
       ELSE Keep(St("literal", TokLit(n), NoTok, 0), generate_literal(A0, mode, n), FALSE)

\* w is lexer_to_alu_op of the mnemonic
SYM_INSTRUCTION(w) ==
    /\ phase = "asm"
    /\ IF Overflow THEN Keep(St("instruction", TokLit(w), NoTok, 0), A0, TRUE)
       ELSE Keep(St("instruction", TokLit(w), NoTok, 0), generate(A0, mode, w), FALSE)

\* begin: hole1 = here(), then the body is assembled
SYM_BEGIN ==
    /\ phase = "asm"
    /\ IF Overflow THEN Keep(St("begin", NoTok, NoTok, 0), A0, TRUE)
       ELSE Commit(St("begin", NoTok, NoTok, 0), here(A0), FALSE, symbols,
                   Append(ctl, Frame("begin", pc)), mode, pwd, in_definition)

\* again / until: the back edge to hole1
SYM_BEGIN_END(type) ==
    /\ phase = "asm"
    /\ ctl # <<>>
    /\ Top.k = "begin"
    /\ Commit(St(type, NoTok, NoTok, 0),
              generate(A0, mode,
                       BitOr(IF type = "again" THEN OP_BRANCH ELSE OP_0BRANCH, Top.h)),
              FALSE, symbols, Pop, mode, pwd, in_definition)

\* if: hole1 = hole(), then the first branch is assembled
SYM_IF1 ==
    /\ phase = "asm"
    /\ IF Overflow THEN Keep(St("if", NoTok, NoTok, 0), A0, TRUE)
       ELSE Commit(St("if", NoTok, NoTok, 0), hole(A0), FALSE, symbols,
                   Append(ctl, Frame("if", pc)), mode, pwd, in_definition)

\* else: hole2 = hole(); fix(hole1, OP_0BRANCH | (hole2 + 1))
SYM_IF1_ELSE ==
    /\ phase = "asm"
    /\ ctl # <<>>
    /\ Top.k = "if"
    /\ LET A1 == hole(A0)
           A2 == IF A1.abort THEN A1 ELSE fix(A1, Top.h, BitOr(OP_0BRANCH, U16(pc + 1)))
       IN  Commit(St("else", NoTok, NoTok, 0), A2, FALSE, symbols,
                  Append(Pop, Frame("else", pc)), mode, pwd, in_definition)

\* then: the open hole is patched to here()
SYM_IF1_THEN ==
    /\ phase = "asm"
    /\ ctl # <<>>
    /\ Top.k \in {"if", "else"}
    /\ LET A1 == here(A0)
           op == IF Top.k = "if" THEN OP_0BRANCH ELSE OP_BRANCH
           A2 == IF A1.abort THEN A1 ELSE fix(A1, Top.h, BitOr(op, pc))
       IN  Commit(St("then", NoTok, NoTok, 0), A2, FALSE, symbols, Pop,
                  mode, pwd, in_definition)

\* s[i] of the C string: the terminating NUL past its end
CharAt(s, i) == IF i + 1 <= Len(s) THEN s[i + 1] ELSE 0

\* the parameters are of type char: in a build with signed char a value above
\* 127 is negative, and (uint16_t) of it has the high byte 0xFF
pack_16(lb, hb) ==
    BitOr(U16(Shl((hb % 256), 8)),
          IF char_signed /\ lb % 256 > 127 THEN 65280 + (lb % 256) ELSE lb % 256)

\* the cells of a packed string: the length with the first character, then the
\* characters from the second on in pairs (the loop i = 1, 3, ... of pack_string)
PackedString(s) ==
    [j \in 1 .. 1 + (Len(s) \div 2) |->
        IF j = 1 THEN pack_16(Len(s), CharAt(s, 0))
        ELSE pack_16(CharAt(s, 2 * j - 3), CharAt(s, 2 * j - 2))]

\* h->core[hole(h, a)] = cells[j] for j = 1, 2, ... until a hole fails its assert
PutCells(A, cells) ==
    LET k    == Len(cells)
        room == IF A.pc < MAX_PROGRAM THEN MAX_PROGRAM - A.pc ELSE 0
        m    == IF k < room THEN k ELSE room
        W    == [A EXCEPT !.core = [x \in (DOMAIN A.core) \cup (A.pc .. A.pc + m - 1) |->
                                       IF x >= A.pc /\ x < A.pc + m
                                       THEN cells[x - A.pc + 1] ELSE A.core[x]],
                          !.pc = A.pc + m,
                          !.fence = IF m = 0 THEN @ ELSE update_fence(@, A.pc + m - 1)]
    IN  IF m < k THEN hole(W) ELSE W

\* pack_string: [A, err]
pack_string(A, s) ==
    IF Len(s) > 255 THEN [A |-> A, err |-> TRUE]
    ELSE LET A2 == PutCells(A, PackedString(s))
         IN  [A |-> IF A2.abort THEN A2 ELSE here(A2), err |-> FALSE]

\* ':' name: the header when headers are compiled, then the call symbol at here()
SYM_DEFINITION(id, bits) ==
    /\ phase = "asm"
    /\ \A i \in 1 .. Len(ctl) : ctl[i].k # "def"
    /\ LET st     == St("define", TokId(id), NoTok, bits)
           header == BitAnd(mode, MODE_COMPILE_WORD_HEADER) # 0
                     /\ BitAnd(bits, DEFINE_HIDDEN) = 0
           bits1  == IF header THEN BitAnd(bits, DEFINE_IMMEDIATE + DEFINE_INLINE)
                     ELSE bits
           A1     == hole(A0)
           A2     == IF A1.abort THEN A1
                     ELSE fix(A1, pc, BitOr(pwd, U16(Shl(bits1, 13))))
           pk     == pack_string(A2, id)
           A3     == IF header THEN pk.A ELSE A0
           pw     == IF header /\ ~A3.abort THEN U16(Shl(pc, 1)) ELSE pwd
           A4     == IF A3.abort THEN A3 ELSE here(A3)
           add    == symbol_table_add(symbols, "call", id, A4.pc,
                                      BitAnd(bits1, DEFINE_HIDDEN) # 0)
       IN  IF Overflow THEN Keep(st, A0, TRUE)
           ELSE IF bits # 0 /\ BitAnd(mode, MODE_COMPILE_WORD_HEADER) = 0
           THEN Keep(st, A0, TRUE)
           ELSE IF header /\ ~A2.abort /\ pk.err
           THEN Commit(st, A2, TRUE, symbols, ctl, mode, U16(Shl(pc, 1)), in_definition)
           ELSE IF A4.abort \/ add.r # 0
           THEN Commit(st, A4, TRUE, symbols, ctl, mode, pw, in_definition)
           ELSE Commit(st, A4, in_definition, add.t,
                       IF in_definition THEN ctl ELSE Append(ctl, Frame("def", A4.pc)),
                       mode, pw, TRUE)

\* ';': the body is closed by CODE_EXIT
SYM_DEFINITION_END ==
    /\ phase = "asm"
    /\ ctl # <<>>
    /\ Top.k = "def"
    /\ Commit(St("enddefine", NoTok, NoTok, 0), generate(A0, mode, CODE_EXIT), FALSE,
              symbols, Pop, mode, pwd, FALSE)

\* a bare identifier
SYM_CALL_DEFINITION(id) ==
    /\ phase = "asm"
    /\ LET st == St("call-definition", TokId(id), NoTok, 0)
           i  == symbol_table_lookup(symbols, id)
       IN  IF Overflow \/ i = 0 THEN Keep(st, A0, TRUE)
           ELSE IF symbols[i].type = "call"
           THEN Keep(st, generate(A0, mode, BitOr(OP_CALL, symbols[i].value)), FALSE)
           ELSE IF symbols[i].type \in {"constant", "variable"}
           THEN Keep(st, generate_literal(A0, mode, symbols[i].value), FALSE)
           ELSE Keep(st, A0, TRUE)

\* literal_or_symbol_lookup: [value, err]
literal_or_symbol_lookup(tok, t) ==
    LET i == symbol_table_lookup(t, tok.id)
    IN  IF tok.type = "literal" THEN [value |-> tok.number, err |-> FALSE]
        ELSE IF i = 0 THEN [value |-> 0, err |-> TRUE]
        ELSE [value |-> t[i].value, err |-> FALSE]

Name_pc == <<36, 112, 99>>

Name_pwd == <<36, 112, 119, 100>>

\* symbol_special: [value, err]
symbol_special(id) ==
    IF id = Name_pc THEN [value |-> U16(Shl(pc, 1)), err |-> FALSE]
    ELSE IF id = Name_pwd THEN [value |-> pwd, err |-> FALSE]
    ELSE [value |-> 0, err |-> TRUE]

\* .set location value
SYM_SET(tok, val) ==
    /\ phase = "asm"
    /\ LET st  == St("set", tok, val, 0)
           loc == literal_or_symbol_lookup(tok, symbols)
           i   == symbol_table_lookup(symbols, val.id)
           v   == IF val.type = "literal" THEN [value |-> val.number, err |-> FALSE]
                  ELSE IF i # 0
                  THEN [value |-> IF symbols[i].type = "call"
                                  THEN U16(Shl(symbols[i].value, 1))
                                  ELSE symbols[i].value,
                        err |-> FALSE]
                  ELSE symbol_special(val.id)
       IN  IF Overflow \/ loc.err \/ v.err THEN Keep(st, A0, TRUE)
           ELSE Keep(st, fix(A0, Shr(loc.value, 1), v.value), FALSE)

\* .pwd value
SYM_PWD(tok) ==
    /\ phase = "asm"
    /\ LET st == St("pwd", tok, NoTok, 0)
           v  == literal_or_symbol_lookup(tok, symbols)
       IN  IF Overflow \/ v.err THEN Keep(st, A0, TRUE)
           ELSE Commit(st, A0, FALSE, symbols, ctl, mode, v.value, in_definition)

\* .pc value
SYM_PC(tok) ==
    /\ phase = "asm"
    /\ LET st == St("pc", tok, NoTok, 0)
           v  == literal_or_symbol_lookup(tok, symbols)
       IN  IF Overflow \/ v.err THEN Keep(st, A0, TRUE)
           ELSE Keep(st, [A0 EXCEPT !.pc = v.value,
                                    !.fence = update_fence(fence, v.value)], FALSE)

\* .mode literal
SYM_MODE(n) ==
    /\ phase = "asm"
    /\ IF Overflow THEN Keep(St("mode", TokLit(n), NoTok, 0), A0, TRUE)
       ELSE Commit(St("mode", TokLit(n), NoTok, 0), A0, FALSE, symbols, ctl, n, pwd,
                   in_definition)

\* .allocate value
SYM_ALLOCATE(tok) ==
    /\ phase = "asm"
    /\ LET st == St("allocate", tok, NoTok, 0)
           v  == literal_or_symbol_lookup(tok, symbols)
           p  == U16(pc + Shr(v.value, 1))
       IN  IF Overflow \/ v.err THEN Keep(st, A0, TRUE)
           ELSE Keep(st, [A0 EXCEPT !.pc = p, !.fence = update_fence(fence, p)], FALSE)

\* the names "doVar", "doConst" and "r1-"
Name_doVar == <<100, 111, 86, 97, 114>>

Name_doConst == <<100, 111, 67, 111, 110, 115, 116>>

Name_r1 == <<114, 49, 45>>

Word(name, compile, inline_bit, hidden, code) ==
    [name |-> name, compile |-> compile, inline_bit |-> inline_bit, hidden |-> hidden,
     code |-> code]

\* built_in_words[]: the entries X_MACRO_INSTRUCTIONS expands to, then the three
\* hidden words of h2.c
built_in_words(xwords) ==
    xwords \o
    << Word(Name_doVar, TRUE, FALSE, TRUE, <<CODE_FROMR>>),
       Word(Name_doConst, TRUE, FALSE, TRUE, <<CODE_FROMR, CODE_LOAD>>),
       Word(Name_r1, TRUE, FALSE, TRUE,
            <<CODE_FROMR, CODE_FROMR, CODE_T_N1, CODE_TOR, CODE_TOR>>) >>

\* generate(h, a, code[j]) for j = i .. Len(code)
RECURSIVE GenerateAll(_, _, _, _)
GenerateAll(A, md, code, i) ==
    IF i > Len(code) THEN A ELSE GenerateAll(generate(A, md, code[i]), md, code, i + 1)

\* a header that does not move the word pointer
Header_keep_pwd(A, pw, flags, name) ==
    LET A1 == hole(A)
        A2 == IF A1.abort THEN A1 ELSE fix(A1, A.pc, BitOr(pw, flags))
        pk == pack_string(A2, name)
    IN  [A |-> IF A2.abort THEN A2 ELSE pk.A, pwd |-> pw, err |-> ~A2.abort /\ pk.err]

\* the header of a word: a cell with the previous pwd (and flag bits), then the
\* packed name; [A, pwd, err]
Header(A, pw, flags, name) ==
    LET A1 == hole(A)
        A2 == IF A1.abort THEN A1 ELSE fix(A1, A.pc, BitOr(pw, flags))
        pk == pack_string(A2, name)
    IN  IF A2.abort THEN [A |-> A2, pwd |-> pw, err |-> FALSE]
        ELSE [A |-> pk.A, pwd |-> U16(Shl(A.pc, 1)), err |-> pk.err]

\* one round of the loop without `if(!(built_in_words[i].compile)) continue;`
BuiltInWord_compile_all(S, md, w) ==
    IF S.err \/ S.A.abort THEN S
    ELSE LET hd  == IF w.hidden THEN [A |-> S.A, pwd |-> S.pwd, err |-> FALSE]
                    ELSE Header(S.A, S.pwd,
                                IF w.inline_bit THEN U16(Shl(DEFINE_INLINE, 13)) ELSE 0,
                                w.name)
             A1  == IF hd.A.abort \/ hd.err THEN hd.A ELSE here(hd.A)
             add == symbol_table_add(S.t, "call", w.name, A1.pc, w.hidden)
         IN  IF hd.err \/ A1.abort \/ add.r # 0
             THEN [A |-> A1, pwd |-> hd.pwd, t |-> S.t, err |-> TRUE]
             ELSE [A |-> generate(GenerateAll(A1, md, w.code, 1), md, CODE_EXIT),
                   pwd |-> hd.pwd, t |-> add.t, err |-> FALSE]

\* one round of the loop of SYM_BUILT_IN; S = [A, pwd, t, err]
BuiltInWord(S, md, w) ==
    IF S.err \/ S.A.abort \/ ~w.compile THEN S
    ELSE LET hd  == IF w.hidden THEN [A |-> S.A, pwd |-> S.pwd, err |-> FALSE]
                    ELSE Header(S.A, S.pwd,
                                IF w.inline_bit THEN U16(Shl(DEFINE_INLINE, 13)) ELSE 0,
                                w.name)
             A1  == IF hd.A.abort \/ hd.err THEN hd.A ELSE here(hd.A)
             add == symbol_table_add(S.t, "call", w.name, A1.pc, w.hidden)
         IN  IF hd.err \/ A1.abort \/ add.r # 0
             THEN [A |-> A1, pwd |-> hd.pwd, t |-> S.t, err |-> TRUE]
             ELSE [A |-> generate(GenerateAll(A1, md, w.code, 1), md, CODE_EXIT),
                   pwd |-> hd.pwd, t |-> add.t, err |-> FALSE]

RECURSIVE BuiltInWords(_, _, _, _)
BuiltInWords(S, md, words, i) ==
    IF i > Len(words) THEN S
    ELSE BuiltInWords(BuiltInWord(S, md, words[i]), md, words, i + 1)

\* .built-in with the test of built_in_words_defined ahead of the test of the mode
SYM_BUILT_IN_flag_first(xwords) ==
    /\ phase = "asm"
    /\ LET st == St("built-in", NoTok, NoTok, 0)
       IN  IF Overflow THEN Keep(st, A0, TRUE)
           ELSE IF built_in_words_defined THEN Keep(st, A0, TRUE)
           ELSE IF BitAnd(mode, MODE_COMPILE_WORD_HEADER) = 0 THEN Keep(st, A0, FALSE)
           ELSE \E S \in {BuiltInWords([A |-> A0, pwd |-> pwd, t |-> symbols, err |-> FALSE],
                                       mode, built_in_words(xwords), 1)} :
                  /\ CommitVars(st, S.A, S.err, S.t, ctl, mode, S.pwd, in_definition)
                  /\ built_in_words_defined' = TRUE
                  /\ UNCHANGED <<tos, sp, rp, block, rvars>>

\* .built-in
SYM_BUILT_IN(xwords) ==
    /\ phase = "asm"
    /\ LET st == St("built-in", NoTok, NoTok, 0)
       IN  IF Overflow THEN Keep(st, A0, TRUE)
           ELSE IF BitAnd(mode, MODE_COMPILE_WORD_HEADER) = 0 THEN Keep(st, A0, FALSE)
           ELSE IF built_in_words_defined THEN Keep(st, A0, TRUE)
           ELSE \E S \in {BuiltInWords([A |-> A0, pwd |-> pwd, t |-> symbols, err |-> FALSE],
                                       mode, built_in_words(xwords), 1)} :
                  /\ CommitVars(st, S.A, S.err, S.t, ctl, mode, S.pwd, in_definition)
                  /\ built_in_words_defined' = TRUE
                  /\ UNCHANGED <<tos, sp, rp, block, rvars>>

\* constant name value
SYM_CONSTANT(id, n, bits) ==
    /\ phase = "asm"
    /\ LET st  == St("constant", TokId(id), TokLit(n), bits)
           hdr == /\ BitAnd(mode, MODE_COMPILE_WORD_HEADER) # 0
                  /\ built_in_words_defined
                  /\ BitAnd(bits, DEFINE_HIDDEN) = 0
           dc  == symbol_table_lookup(symbols, Name_doConst)
           hd  == Header(A0, pwd, 0, id)
           A1  == IF ~hdr THEN A0
                  ELSE IF dc = 0 THEN [A0 EXCEPT !.abort = TRUE]
                  ELSE IF hd.A.abort \/ hd.err THEN hd.A
                  ELSE generate(hd.A, mode, BitOr(OP_CALL, symbols[dc].value))
           pw  == IF hdr /\ dc # 0 THEN hd.pwd ELSE pwd
           A2  == IF ~hdr \/ A1.abort THEN A1 ELSE hole(A1)
           A3  == IF ~hdr \/ A2.abort THEN A2 ELSE fix(A2, A1.pc, n)
           add == symbol_table_add(symbols, "constant", id, n, FALSE)
       IN  IF Overflow THEN Keep(st, A0, TRUE)
           ELSE IF hdr /\ dc # 0 /\ ~hd.A.abort /\ hd.err
           THEN Commit(st, hd.A, TRUE, symbols, ctl, mode, pw, in_definition)
           ELSE Commit(st, A3, add.r # 0, IF A3.abort THEN symbols ELSE add.t,
                       ctl, mode, pw, in_definition)

TokStr(str) == [type |-> "string", id |-> str, number |-> 0]

\* location name value, the value a literal or a string
SYM_LOCATION(id, val) ==
    /\ phase = "asm"
    /\ LET st  == St("location", TokId(id), val, 0)
           A1  == here(A0)
           h1  == hole(A1)
           pk  == pack_string(A1, val.id)
           A2  == IF A1.abort THEN A1
                  ELSE IF val.type = "literal"
                  THEN (IF h1.abort THEN h1 ELSE fix(h1, A1.pc, val.number))
                  ELSE pk.A
           add == symbol_table_add(symbols, "variable", id, U16(Shl(A1.pc, 1)), TRUE)
       IN  IF Overflow THEN Keep(st, A0, TRUE)
           ELSE IF ~A1.abort /\ val.type # "literal" /\ pk.err THEN Keep(st, A1, TRUE)
           ELSE Commit(st, A2, add.r # 0, IF A2.abort THEN symbols ELSE add.t,
                       ctl, mode, pwd, in_definition)

\* variable name value
SYM_VARIABLE(id, n, bits) ==
    /\ phase = "asm"
    /\ LET st  == St("variable", TokId(id), TokLit(n), bits)
           hdr == /\ BitAnd(mode, MODE_COMPILE_WORD_HEADER) # 0
                  /\ built_in_words_defined
                  /\ BitAnd(bits, DEFINE_HIDDEN) = 0
           dv  == symbol_table_lookup(symbols, Name_doVar)
           hd  == Header(A0, pwd, 0, id)
           A1  == IF ~hdr THEN A0
                  ELSE IF dv = 0 THEN [A0 EXCEPT !.abort = TRUE]
                  ELSE IF hd.A.abort \/ hd.err THEN hd.A
                  ELSE generate(hd.A, mode, BitOr(OP_CALL, symbols[dv].value))
           pw  == IF hdr /\ dv # 0 THEN hd.pwd ELSE pwd
           A2  == IF A1.abort THEN A1 ELSE hole(here(A1))
           A3  == IF A2.abort THEN A2 ELSE fix(A2, A1.pc, n)
           add == symbol_table_add(symbols, "variable", id, U16(Shl(A1.pc, 1)), FALSE)
       IN  IF Overflow THEN Keep(st, A0, TRUE)
           ELSE IF ~hdr /\ BitAnd(bits, DEFINE_HIDDEN) = 0 THEN Keep(st, A0, TRUE)
           ELSE IF hdr /\ dv # 0 /\ ~hd.A.abort /\ hd.err
           THEN Commit(st, hd.A, TRUE, symbols, ctl, mode, pw, in_definition)
           ELSE Commit(st, A3, add.r # 0, IF A3.abort THEN symbols ELSE add.t,
                       ctl, mode, pw, in_definition)

(***************************************************************************)
(* main: assemble mode saves the first pc cells, run mode loads the block  *)
(* into a new machine and runs it.                                         *)
(***************************************************************************)
\* binary_memory_save writing the high byte first
binary_memory_save_high_first(c, length) ==
    [k \in 1 .. 2 * length |->
        IF k % 2 = 1 THEN Shr(Rd(c, (k - 1) \div 2), 8) % 256
        ELSE Rd(c, (k - 2) \div 2) % 256]

\* binary_memory_save: each cell as its low byte, then its high byte
binary_memory_save(c, length) ==
    [k \in 1 .. 2 * length |->
        IF k % 2 = 1 THEN Rd(c, (k - 1) \div 2) % 256
        ELSE Shr(Rd(c, (k - 2) \div 2), 8) % 256]

\* binary_memory_load: [core, r]; the cells read before the input ends are stored
binary_memory_load(bytes, c, length) ==
    LET n == IF Len(bytes) \div 2 < length THEN Len(bytes) \div 2 ELSE length
    IN  [core |-> [a \in (DOMAIN c) \cup (0 .. n - 1) |->
                      IF a < n THEN BitOr(bytes[2 * a + 1], Shl(bytes[2 * a + 2], 8))
                      ELSE c[a]],
         r |-> IF n < length THEN -1 ELSE 0]

\* assemble mode, after the last statement: save(h, FORTH_BLOCK, h->pc)
main_assemble ==
    /\ phase = "asm"
    /\ ctl = <<>>
    /\ IF pc > CoreCells
       THEN phase' = "undefined" /\ UNCHANGED block
       ELSE phase' = "saved"
            /\ block' = [exists |-> TRUE, bytes |-> binary_memory_save(core, pc)]
    /\ UNCHANGED <<hvars, avars, rvars>>

\* run mode: h2_new(START_ADDR); load(h, FORTH_BLOCK); the result of load is not used
main_run ==
    /\ phase = "saved"
    /\ LET h == h2_new(START_ADDR)
       IN  \E l \in {IF block.exists THEN binary_memory_load(block.bytes, h.core, CoreCells)
                     ELSE [core |-> h.core, r |-> -1]} :
           /\ core' = l.core
           /\ pc' = h.pc
           /\ tos' = h.tos
           /\ sp' = h.sp
           /\ rp' = h.rp
           /\ load_r' = l.r
    /\ phase' = "run"
    /\ steps' = 0
    /\ UNCHANGED <<avars, block, ret, out, rx, drv, lex, char_signed>>

\* binary_memory_load(input, p, length) of the saved file into the memory of a
\* new machine, with the length it was saved with
image_load ==
    /\ phase = "saved"
    /\ block.exists
    /\ \E l \in {binary_memory_load(block.bytes, h2_new(START_ADDR).core, pc)} :
         /\ core' = l.core
         /\ load_r' = l.r
    /\ phase' = "loaded"
    /\ UNCHANGED <<pc, tos, sp, rp, avars, block, steps, ret, out, rx, drv, lex, char_signed>>

\* what getch can deliver to an RX
RxInputs == {EOF, ESCAPE, 65}

\* wrap_getch is called only by an ALU instruction whose operation is RX
AtRx == InCore(pc) /\ IS_ALU_OP(Rd(core, pc)) /\ ALU_OP(Rd(core, pc)) = ALU_OP_RX

\* one iteration of the loop of h2_run
h2_run_step ==
    /\ phase = "run"
    /\ steps < MaxSteps
    /\ \E ch \in (IF AtRx THEN RxInputs ELSE {EOF}) :
         \E r \in {Exec([core |-> core, pc |-> pc, tos |-> tos, sp |-> sp, rp |-> rp], ch)} :
             /\ core' = r.m.core
             /\ pc' = r.m.pc
             /\ tos' = r.m.tos
             /\ sp' = r.m.sp
             /\ rp' = r.m.rp
             /\ phase' = IF r.st = "running" THEN "run" ELSE r.st
             /\ ret' = r.ret
             /\ out' = out \o r.out
             /\ rx' = IF ~AtRx \/ r.st = "undefined" THEN rx
                      ELSE [read |-> Append(rx.read, ch),
                            got  |-> IF r.st = "running" THEN Append(rx.got, ch)
                                     ELSE rx.got]
             /\ block' = IF r.save
                         THEN [exists |-> TRUE,
                               bytes |-> binary_memory_save(core, CoreCells)]
                         ELSE block
    /\ steps' = steps + 1
    /\ UNCHANGED <<avars, load_r, drv, lex, char_signed>>

\* h2_run called again on the handle it has returned from: its first iteration
h2_run_again ==
    /\ phase = "returned"
    /\ steps < MaxSteps
    /\ \E ch \in (IF AtRx THEN RxInputs ELSE {EOF}) :
         \E r \in {Exec([core |-> core, pc |-> pc, tos |-> tos, sp |-> sp, rp |-> rp], ch)} :
             /\ core' = r.m.core
             /\ pc' = r.m.pc
             /\ tos' = r.m.tos
             /\ sp' = r.m.sp
             /\ rp' = r.m.rp
             /\ phase' = IF r.st = "running" THEN "run" ELSE r.st
             /\ ret' = r.ret
             /\ out' = out \o r.out
             /\ rx' = IF ~AtRx \/ r.st = "undefined" THEN rx
                      ELSE [read |-> Append(rx.read, ch),
                            got  |-> IF r.st = "running" THEN Append(rx.got, ch)
                                     ELSE rx.got]
             /\ block' = IF r.save
                         THEN [exists |-> TRUE,
                               bytes |-> binary_memory_save(core, CoreCells)]
                         ELSE block
    /\ steps' = steps + 1
    /\ UNCHANGED <<avars, load_r, drv, lex, char_signed>>

(***************************************************************************)
(* unix.c: main sets the terminal up, makes one handle and calls embed_vm  *)
(* until it returns a value that is not positive; embed_vm reads its       *)
(* input through the callback unix_getch.                                  *)
(***************************************************************************)
EXIT_SUCCESS == 0

\* a loop that goes on for every value but zero
loop_continues_nonzero(r) == r # 0

\* for(r = 0; (r = embed_vm(h, &o)) > 0; )
loop_continues(r) == r > 0

\* main up to the first call of embed_vm.  raw() has no return statement on
\* its success path, so what main compares with 0 is then any value:
\* raw_negative is that comparison, whether raw failed or not
unix_main(tty, raw_negative, h) ==
    /\ phase = "unix_main"
    /\ IF (tty /\ raw_negative) \/ h = 0
       THEN phase' = "fatal" /\ UNCHANGED drv
       ELSE phase' = "unix_vm" /\ drv' = [h |-> h, passed |-> <<h>>, rets |-> <<>>]
    /\ UNCHANGED <<hvars, avars, block, load_r, steps, ret, out, rx, lex, char_signed>>

\* getch of unix.c: n is what read returned, b the byte, again whether errno
\* is EAGAIN or EWOULDBLOCK
getch(n, b, again) == [r |-> IF n = 1 THEN b ELSE EOF, eagain |-> n < 0 /\ again]

\* unix_getch that hands every value on
unix_getch_no_escape(n, b, again) ==
    /\ phase = "unix_vm"
    /\ Len(rx.read) < MaxReads
    /\ \E g \in {getch(n, b, again)} :
         rx' = [read |-> Append(rx.read, g.r),
                got  |-> Append(rx.got, [r |-> g.r,
                                         no_data |-> IF g.eagain THEN -1 ELSE 0])]
    /\ UNCHANGED <<hvars, avars, phase, block, load_r, steps, ret, out, drv, lex, char_signed>>

\* the callback embed_vm reads its input with
unix_getch(n, b, again) ==
    /\ phase = "unix_vm"
    /\ Len(rx.read) < MaxReads
    /\ \E g \in {getch(n, b, again)} :
         IF g.r = ESCAPE
         THEN /\ phase' = "exited"
              /\ ret' = EXIT_SUCCESS
              /\ rx' = [rx EXCEPT !.read = Append(@, g.r)]
         ELSE /\ rx' = [read |-> Append(rx.read, g.r),
                        got  |-> Append(rx.got, [r |-> g.r,
                                                 no_data |-> IF g.eagain THEN -1 ELSE 0])]
              /\ UNCHANGED <<phase, ret>>
    /\ UNCHANGED <<hvars, avars, block, load_r, steps, out, drv, lex, char_signed>>

\* embed_vm returns v to the loop of main
embed_vm_return(v) ==
    /\ phase = "unix_vm"
    /\ drv' = [drv EXCEPT !.rets = Append(@, v)]
    /\ ret' = v
    /\ phase' = IF loop_continues(v) THEN "unix_sleep" ELSE "returned"
    /\ UNCHANGED <<hvars, avars, block, load_r, steps, out, rx, lex, char_signed>>

\* usleep(10 * 1000uLL), then the next embed_vm(h, &o)
usleep ==
    /\ phase = "unix_sleep"
    /\ Len(drv.passed) < MaxCalls
    /\ phase' = "unix_vm"
    /\ drv' = [drv EXCEPT !.passed = Append(@, drv.h)]
    /\ UNCHANGED <<hvars, avars, block, load_r, steps, ret, out, rx, lex, char_signed>>

(***************************************************************************)
(* The lexer and parse().  Characters are their codes.  lex.input is what  *)
(* is left of the input stream, lex.id the array l->id (lexer_new zeroes   *)
(* it; cells never written read 0), lex.tokens the tokens returned so far. *)
(* The grammar of the parser is not modelled: lexer() is called until it   *)
(* returns LEX_EOI or raises a syntax error, which is every sequence of    *)
(* calls the parser can make.                                              *)
(***************************************************************************)
MAX_ID_LENGTH == 256

LEX_LITERAL == 0

LEX_IDENTIFIER == 1

LEX_LABEL == 2

LEX_STRING == 3

LEX_CONSTANT == 4

LEX_DEFINE == 19

LEX_ENDDEFINE == 20

LEX_EOI == EOF

\* keywords[LEX_CONSTANT] .. keywords[LEX_BUILT_IN]: "constant", "call", "branch",
\* "0branch", "begin", "while", "repeat", "again", "until", "for", "aft", "next",
\* "if", "else", "then", ":", ";", "[char]", "variable", "location", "immediate",
\* "hidden", "inline", "'", ".pwd", ".set", ".pc", ".mode", ".allocate",
\* ".built-in".  The mnemonics of X_MACRO_INSTRUCTIONS (h2.h) follow them.
keywords ==
    <<
       <<99, 111, 110, 115, 116, 97, 110, 116>>,
       <<99, 97, 108, 108>>,
       <<98, 114, 97, 110, 99, 104>>,
       <<48, 98, 114, 97, 110, 99, 104>>,
       <<98, 101, 103, 105, 110>>,
       <<119, 104, 105, 108, 101>>,
       <<114, 101, 112, 101, 97, 116>>,
       <<97, 103, 97, 105, 110>>,
       <<117, 110, 116, 105, 108>>,
       <<102, 111, 114>>,
       <<97, 102, 116>>,
       <<110, 101, 120, 116>>,
       <<105, 102>>,
       <<101, 108, 115, 101>>,
       <<116, 104, 101, 110>>,
       <<58>>,
       <<59>>,
       <<91, 99, 104, 97, 114, 93>>,
       <<118, 97, 114, 105, 97, 98, 108, 101>>,
       <<108, 111, 99, 97, 116, 105, 111, 110>>,
       <<105, 109, 109, 101, 100, 105, 97, 116, 101>>,
       <<104, 105, 100, 100, 101, 110>>,
       <<105, 110, 108, 105, 110, 101>>,
       <<39>>,
       <<46, 112, 119, 100>>,
       <<46, 115, 101, 116>>,
       <<46, 112, 99>>,
       <<46, 109, 111, 100, 101>>,
       <<46, 97, 108, 108, 111, 99, 97, 116, 101>>,
       <<46, 98, 117, 105, 108, 116, 45, 105, 110>>
    >>

isspace(c) == c = 32 \/ (c >= 9 /\ c <= 13)

isgraph(c) == c >= 33 /\ c <= 126

numeric(c, base) ==
    IF base = 10 THEN c >= 48 /\ c <= 57
    ELSE (c >= 48 /\ c <= 57) \/ (c >= 65 /\ c <= 70) \/ (c >= 97 /\ c <= 102)

map_char_to_number(c) ==
    IF c >= 48 /\ c <= 57 THEN c - 48
    ELSE (IF c >= 65 /\ c <= 90 THEN c + 32 ELSE c) + 10 - 97

\* out = out * base + map_char_to_number(s[i]) for i = from .. length - 1, in
\* uint32_t; acc is out
RECURSIVE NumberValue(_, _, _, _, _)
NumberValue(s, from, length, base, acc) ==
    IF from >= length THEN acc
    ELSE NumberValue(s, from + 1, length, base,
                     (acc * base + map_char_to_number(Rd(s, from))) % (W16 * W16))

\* number(s, &o, length): [ok, o]
number(s, length) ==
    LET negate == Rd(s, 0) = 45
        i1     == IF negate THEN 1 ELSE 0
        hex    == Rd(s, i1) = 36
        base   == IF hex THEN 16 ELSE 10
        start  == IF hex THEN i1 + 1 ELSE i1
        acc    == NumberValue(s, start, length, base, 0)
    IN  IF Rd(s, 0) = 0 \/ (negate /\ Rd(s, 1) = 0) \/ (hex /\ Rd(s, i1 + 1) = 0)
        THEN [ok |-> FALSE, o |-> 0]
        ELSE IF \E j \in start .. length - 1 : ~numeric(Rd(s, j), base)
        THEN [ok |-> FALSE, o |-> 0]
        ELSE [ok |-> TRUE, o |-> IF negate THEN (W16 * W16 - acc) % W16 ELSE acc % W16]

RECURSIVE strlen_from(_, _)
strlen_from(s, n) == IF Rd(s, n) = 0 THEN n ELSE strlen_from(s, n + 1)

\* the C string at l->id
CStr(s) == [j \in 1 .. strlen_from(s, 0) |-> s[j - 1]]

token_new(type, id, n) == [type |-> type, id |-> id, number |-> n]

\* the result of one call of lexer(): st is "ok", "error" (syntax_error) or
\* "undefined"
LexResult(st, L, inp, id, indef, tok) ==
    [st |-> st, tok |-> tok,
     L |-> [L EXCEPT !.input = inp, !.id = id, !.in_definition = indef]]

LexError(L) == LexResult("error", L, L.input, L.id, L.in_definition, token_new(LEX_EOI, <<>>, 0))

\* for(; c != (ch = next_char(l));) if(ch == EOF) syntax_error: [found, rest]
RECURSIVE SkipTo(_, _)
SkipTo(inp, c) ==
    IF inp = <<>> THEN [found |-> FALSE, rest |-> inp]
    ELSE IF Head(inp) = c THEN [found |-> TRUE, rest |-> Tail(inp)]
    ELSE SkipTo(Tail(inp), c)

\* the loop of case '"': [err, input, id]
RECURSIVE StringRun(_, _, _)
StringRun(inp, id, i) ==
    IF inp = <<>> THEN [err |-> TRUE, input |-> inp, id |-> id]
    ELSE IF Head(inp) = 34 THEN [err |-> FALSE, input |-> Tail(inp), id |-> Wr(id, i, 0)]
    ELSE IF i >= MAX_ID_LENGTH - 1 THEN [err |-> TRUE, input |-> inp, id |-> id]
    ELSE StringRun(Tail(inp), Wr(id, i, Head(inp)), i + 1)

\* while(isgraph(ch)) { ...; l->id[i++] = ch; ch = next_char(l); } l->id[i] = '\0':
\* [err, input, id, i]
RECURSIVE GraphRun(_, _, _)
GraphRun(inp, id, i) ==
    IF inp # <<>> /\ isgraph(Head(inp))
    THEN IF i >= MAX_ID_LENGTH - 1 THEN [err |-> TRUE, input |-> inp, id |-> id, i |-> i]
         ELSE GraphRun(Tail(inp), Wr(id, i, Head(inp)), i + 1)
    ELSE [err |-> FALSE, input |-> inp, id |-> Wr(id, i, 0), i |-> i]

\* the search of keywords[] from LEX_CONSTANT on: [found, sym]
keyword_sym(s) ==
    IF \E k \in 1 .. Len(keywords) : keywords[k] = s
    THEN [found |-> TRUE,
          sym |-> LEX_CONSTANT - 1
                  + (CHOOSE k \in 1 .. Len(keywords) :
                        keywords[k] = s /\ \A j \in 1 .. k - 1 : keywords[j] # s)]
    ELSE [found |-> FALSE, sym |-> 0]

\* the checks of ':' and ';' that do not look at in_definition
definition_toggle_unchecked(sym, indef) ==
    [err |-> FALSE,
     in_definition |-> IF sym = LEX_DEFINE THEN TRUE
                       ELSE IF sym = LEX_ENDDEFINE THEN FALSE ELSE indef]

\* the checks of LEX_DEFINE and LEX_ENDDEFINE: [err, in_definition]
definition_toggle(sym, indef) ==
    IF sym = LEX_DEFINE THEN [err |-> indef, in_definition |-> TRUE]
    ELSE IF sym = LEX_ENDDEFINE THEN [err |-> ~indef, in_definition |-> FALSE]
    ELSE [err |-> FALSE, in_definition |-> indef]

\* from number() to the break of the default case; g is the result of GraphRun
classify(L, g) ==
    LET s  == CStr(g.id)
        n  == number(g.id, g.i)
        k  == keyword_sym(s)
        t  == definition_toggle(k.sym, L.in_definition)
        id == Wr(g.id, Len(s) - 1, 0)
    IN  IF g.err THEN LexError(L)
        ELSE IF n.ok
        THEN LexResult("ok", L, g.input, g.id, L.in_definition,
                       token_new(LEX_LITERAL, <<>>, n.o))
        ELSE IF ~k.found
        THEN IF g.i > 1 /\ Rd(g.id, g.i - 1) = 58
             THEN IF s = <<>> THEN LexResult("undefined", L, L.input, L.id, L.in_definition,
                                             token_new(LEX_EOI, <<>>, 0))
                  ELSE LexResult("ok", L, g.input, id, L.in_definition,
                                 token_new(LEX_LABEL, CStr(id), 0))
             ELSE LexResult("ok", L, g.input, g.id, L.in_definition,
                            token_new(LEX_IDENTIFIER, s, 0))
        ELSE IF t.err THEN LexError(L)
        ELSE LexResult("ok", L, g.input, g.id, t.in_definition, token_new(k.sym, <<>>, 0))

\* lexer(l).  The case '(' jumps to the label graph, past the assignment i = 0
\* of the default case, so the index of the first character stored is the
\* value of the uninitialised local i: any value, given here as i
RECURSIVE lexer(_, _)
lexer(L, i) ==
    LET inp == L.input
        ch  == IF inp = <<>> THEN EOF ELSE Head(inp)
    IN  IF ch \in {10, 32, 9, 13, 11} THEN lexer([L EXCEPT !.input = Tail(inp)], i)
        ELSE IF ch = EOF
        THEN LexResult("ok", L, inp, L.id, L.in_definition, token_new(LEX_EOI, <<>>, 0))
        ELSE IF ch = 92
        THEN IF SkipTo(Tail(inp), 10).found
             THEN lexer([L EXCEPT !.input = SkipTo(Tail(inp), 10).rest], i)
             ELSE LexError(L)
        ELSE IF ch = 40
        THEN IF Len(inp) >= 2 /\ isspace(inp[2])
             THEN IF SkipTo(Tail(Tail(inp)), 41).found
                  THEN lexer([L EXCEPT !.input = SkipTo(Tail(Tail(inp)), 41).rest], i)
                  ELSE LexError(L)
             ELSE classify(L, GraphRun(inp, L.id, i))
        ELSE IF ch = 34
        THEN LET r == StringRun(Tail(inp), L.id, 0)
             IN  IF r.err THEN LexError(L)
                 ELSE LexResult("ok", L, r.input, r.id, L.in_definition,
                                token_new(LEX_STRING, CStr(r.id), 0))
        ELSE IF isgraph(ch) THEN classify(L, GraphRun(inp, L.id, 0))
        ELSE LexError(L)

\* one call of lexer() by the parser; a syntax error is the longjmp to parse(),
\* which frees the lexer and returns NULL
lexer_call(i) ==
    /\ phase = "parse"
    /\ \E r \in {lexer(lex, i)} :
         /\ lex' = IF r.st = "ok" THEN [r.L EXCEPT !.tokens = Append(@, r.tok)] ELSE lex
         /\ phase' = IF r.st = "error" THEN "parse_null"
                     ELSE IF r.st = "undefined" THEN "undefined"
                     ELSE IF r.tok.type = LEX_EOI THEN "parsed" ELSE "parse"
    /\ UNCHANGED <<hvars, avars, block, load_r, steps, ret, out, rx, drv, char_signed>>

(***************************************************************************)
(* Specifications.  The source is drawn statement by statement from small  *)
(* sets; a leading .mode directive does not count against the length.      *)
(***************************************************************************)
Name_a == <<97>>

Name_b == <<98>>

Stmts ==
    Len(src) - (IF src # <<>> /\ src[1].op = "mode" THEN 1 ELSE 0)

\* the general assembler run
\* branch, 0branch, call: <<type, target>>
AsmJumps ==
    {<<"branch", TokId(Name_a)>>, <<"0branch", TokId(Name_a)>>, <<"call", TokId(Name_a)>>,
     <<"call", TokLit(START_ADDR + 1)>>}

AsmLiterals == {32769}

AsmInstructions == {CODE_DUP, CODE_EXIT}

\* .set: <<location, value>>
AsmSets == {<<TokLit(2), TokLit(CODE_DUP)>>, <<TokLit(2 * START_ADDR + 4), TokId(Name_pc)>>}

AsmPcs == {TokLit(3), TokLit(START_ADDR + 4)}

Budget == Stmts < MaxStmts

NextAsm ==
    \/ Budget /\ SYM_LABEL(Name_a)
    \/ \E j \in AsmJumps : Budget /\ SYM_JUMP(j[1], j[2])
    \/ \E n \in AsmLiterals : Budget /\ SYM_LITERAL(n)
    \/ \E w \in AsmInstructions : Budget /\ SYM_INSTRUCTION(w)
    \/ Budget /\ SYM_BEGIN
    \/ Budget /\ SYM_BEGIN_END("again")
    \/ Budget /\ SYM_IF1
    \/ Budget /\ SYM_IF1_ELSE
    \/ Budget /\ SYM_IF1_THEN
    \/ Budget /\ SYM_DEFINITION(Name_a, 0)
    \/ Budget /\ SYM_DEFINITION_END
    \/ Budget /\ SYM_CALL_DEFINITION(Name_a)
    \/ \E sv \in AsmSets : Budget /\ SYM_SET(sv[1], sv[2])
    \/ \E tok \in AsmPcs : Budget /\ SYM_PC(tok)
    \/ Budget /\ SYM_ALLOCATE(TokLit(4))
    \/ src = <<>> /\ SYM_MODE(MODE_OPTIMIZATION_ON)
    \/ main_assemble

SpecAsm == Init /\ [][NextAsm]_vars

(***************************************************************************)
(* Sources made of colon definitions only, optionally preceded by          *)
(* ".mode 2".                                                              *)
(***************************************************************************)
DefNames == {Name_a, Name_b}

DefInstructions == {CODE_DUP, CODE_TOR, CODE_EXIT}

BudgetDef == Stmts < MaxDefStmts

NextDef ==
    \/ src = <<>> /\ SYM_MODE(MODE_OPTIMIZATION_ON)
    \/ \E id \in DefNames : BudgetDef /\ ~in_definition /\ SYM_DEFINITION(id, 0)
    \/ BudgetDef /\ in_definition /\ SYM_LITERAL(1)
    \/ \E w \in DefInstructions : BudgetDef /\ in_definition /\ SYM_INSTRUCTION(w)
    \/ BudgetDef /\ in_definition /\ SYM_CALL_DEFINITION(Name_a)
    \/ BudgetDef /\ SYM_DEFINITION_END
    \/ main_assemble

SpecDef == Init /\ [][NextDef]_vars

(***************************************************************************)
(* Sources of literals, "+", "bye" and begin ... until loops, assembled,   *)
(* saved, loaded and run.                                                  *)
(***************************************************************************)
RunLiterals == {0, 1, 2, 43690}

RunInstructions == {CODE_ADD, CODE_BYE}

BudgetRun == Stmts < MaxRunStmts

NextRun ==
    \/ src = <<>> /\ SYM_MODE(MODE_OPTIMIZATION_ON)
    \/ \E n \in RunLiterals : BudgetRun /\ SYM_LITERAL(n)
    \/ \E w \in RunInstructions : BudgetRun /\ SYM_INSTRUCTION(w)
    \/ BudgetRun /\ ctl = <<>> /\ SYM_BEGIN
    \/ BudgetRun /\ SYM_BEGIN_END("until")
    \/ main_assemble
    \/ main_run
    \/ h2_run_step

SpecRun == Init /\ [][NextRun]_vars

(***************************************************************************)
(* Sources of literals only, assembled, saved, loaded and run.             *)
(***************************************************************************)
LitSamples == {0, 1, 255, 256, 32767, 32768, 32769, 43690, 65534, 65535}

NextLit ==
    \/ src = <<>> /\ SYM_MODE(MODE_OPTIMIZATION_ON)
    \/ \E n \in LitSamples : Stmts < MaxLits /\ SYM_LITERAL(n)
    \/ main_assemble
    \/ main_run
    \/ h2_run_step

SpecLit == Init /\ [][NextLit]_vars

\* word headers: .built-in and variables
Name_v == <<118>>

Name_wx == <<119, 120>>

Name_dup == <<100, 117, 112>>

Name_invert == <<105, 110, 118, 101, 114, 116>>

\* candidate expansions of X_MACRO_INSTRUCTIONS
XTables ==
    { <<>>,
      << Word(Name_dup, TRUE, TRUE, FALSE, <<CODE_DUP>>),
         Word(Name_invert, FALSE, TRUE, FALSE, <<CODE_INVERT>>) >> }

HdrNames == {Name_v, Name_wx, Name_dup}

HdrValues == {42, 0}

BudgetHdr == Stmts < MaxHdrStmts

NextHdr ==
    \/ \E n \in {MODE_NORMAL, MODE_COMPILE_WORD_HEADER,
                 MODE_COMPILE_WORD_HEADER + MODE_OPTIMIZATION_ON} : src = <<>> /\ SYM_MODE(n)
    \/ \E x \in XTables : BudgetHdr /\ SYM_BUILT_IN(x)
    \/ \E id \in HdrNames, n \in HdrValues, bits \in {0, DEFINE_HIDDEN} :
          BudgetHdr /\ SYM_VARIABLE(id, n, bits)

SpecHdr == Init /\ [][NextHdr]_vars

\* the machine run from an arbitrary state: the instruction at pc, the cell
\* after it, the registers, the second stack item and the return stack top
VmPcs == {START_ADDR, MAX_PROGRAM - 1}

VmTarget == START_ADDR + 4

VmWords ==
    {OP_LITERAL + 1, OP_CALL + VmTarget, OP_0BRANCH + VmTarget, OP_BRANCH + VmTarget,
     CODE_DUP, CODE_ADD, CODE_INVERT, CODE_TOR, CODE_FROMR, CODE_EXIT,
     BitOr(CODE_DUP, CODE_EXIT), BitOr(CODE_ADD, CODE_EXIT),
     OP_ALU_OP + MK_CODE(ALU_OP_N) + N_TO_ADDR_T + MK_DSTACK(DELTA_N1),
     OP_ALU_OP + MK_CODE(ALU_OP_RDEPTH) + T_TO_N + MK_DSTACK(DELTA_1),
     OP_ALU_OP + MK_CODE(ALU_OP_RX) + T_TO_N + MK_DSTACK(DELTA_1),
     OP_ALU_OP + MK_CODE(ALU_OP_N) + T_TO_R + MK_DSTACK(DELTA_N1),
     OP_ALU_OP + MK_CODE(ALU_OP_R) + T_TO_R + T_TO_N + MK_DSTACK(DELTA_N2)
         + MK_RSTACK(DELTA_N2),
     32767}

VmNext == {CODE_EXIT, OP_LITERAL + 2}

\* the first cell of the word at VmTarget; its second cell is CODE_EXIT
VmCallee == {CODE_EXIT, BitOr(CODE_ADD, CODE_EXIT), CODE_DUP}

VmTos == {0, 2 * (START_ADDR + 1), 2 * RETURN_STACK_START, 65535}

VmSps == {VARIABLE_STACK_START, VARIABLE_STACK_START + 1}

VmRps == {RETURN_STACK_START, RETURN_STACK_START + 1}

VmNos == {0, 7}

VmRet == {2 * VmTarget, 2 * VmTarget + 1}

InitVm ==
    \E p \in VmPcs, w \in VmWords, x \in VmNext, y \in VmCallee, t \in VmTos, s \in VmSps,
       r \in VmRps, n \in VmNos, a \in VmRet :
        /\ core = Wr(Wr(Wr(Wr(Wr(Wr(h2_new(START_ADDR).core, s, n), r, a),
                                VmTarget + 1, CODE_EXIT), VmTarget, y),
                        (p + 1) % MAX_PROGRAM, x), p, w)
        /\ pc = p
        /\ tos = t
        /\ sp = s
        /\ rp = r
        /\ fence = START_ADDR
        /\ mode = MODE_NORMAL
        /\ pwd = 0
        /\ in_definition = FALSE
        /\ built_in_words_defined = FALSE
        /\ symbols = <<>>
        /\ ctl = <<>>
        /\ src = <<>>
        /\ rw = {}
        /\ phase = "run"
        /\ block = NoBlock
        /\ load_r = 0
        /\ steps = 0
        /\ ret = 0
        /\ out = <<>>
        /\ rx = NoRx
        /\ drv = NoDrv
        /\ lex = NoLex
        /\ char_signed = TRUE

NextVm == h2_run_step

SpecVm == InitVm /\ [][NextVm]_vars

\* the machine of h2_new with a program of up to MaxProgCells cells at START_ADDR
MemWords == {OP_LITERAL, CODE_INVERT, CODE_LOAD, CODE_TOR, CODE_EXIT, CODE_DUP}

InitMem ==
    /\ pc = h2_new(START_ADDR).pc
    /\ tos = h2_new(START_ADDR).tos
    /\ sp = h2_new(START_ADDR).sp
    /\ rp = h2_new(START_ADDR).rp
    /\ fence = START_ADDR
    /\ mode = MODE_NORMAL
    /\ pwd = 0
    /\ in_definition = FALSE
    /\ built_in_words_defined = FALSE
    /\ symbols = <<>>
    /\ ctl = <<>>
    /\ src = <<>>
    /\ rw = {}
    /\ phase = "run"
    /\ block = NoBlock
    /\ load_r = 0
    /\ steps = 0
    /\ ret = 0
    /\ out = <<>>
    /\ rx = NoRx
    /\ drv = NoDrv
    /\ lex = NoLex
    /\ char_signed = TRUE
    /\ \E n \in 0 .. MaxProgCells : \E prog \in [1 .. n -> MemWords] :
          core = [i \in 0 .. START_ADDR + n - 1 |->
                     IF i < START_ADDR THEN h2_new(START_ADDR).core[i]
                     ELSE prog[i - START_ADDR + 1]]

NextMem == h2_run_step

SpecMem == InitMem /\ [][NextMem]_vars

\* BYE alone and with every stack delta and transfer flag an ALU word can carry
ByeAll ==
    CODE_BYE + T_TO_N + T_TO_R + N_TO_ADDR_T + R_TO_PC + MK_DSTACK(DELTA_1)
        + MK_RSTACK(DELTA_N1)

ByeWords ==
    {CODE_BYE, CODE_BYE + T_TO_N + MK_DSTACK(DELTA_1),
     CODE_BYE + T_TO_R + MK_RSTACK(DELTA_1),
     CODE_BYE + N_TO_ADDR_T + MK_DSTACK(DELTA_N1),
     CODE_BYE + R_TO_PC + MK_RSTACK(DELTA_N1), ByeAll,
     OP_LITERAL + 1, CODE_DUP, CODE_EXIT, OP_BRANCH + VmTarget,
     OP_ALU_OP + MK_CODE(ALU_OP_RX) + T_TO_N + MK_DSTACK(DELTA_1)}

\* the machine at a two-cell program of ByeWords, the callee at VmTarget a BYE
InitBye ==
    /\ fence = START_ADDR
    /\ mode = MODE_NORMAL
    /\ pwd = 0
    /\ in_definition = FALSE
    /\ built_in_words_defined = FALSE
    /\ symbols = <<>>
    /\ ctl = <<>>
    /\ src = <<>>
    /\ rw = {}
    /\ phase = "run"
    /\ block = NoBlock
    /\ load_r = 0
    /\ steps = 0
    /\ ret = 0
    /\ out = <<>>
    /\ rx = NoRx
    /\ drv = NoDrv
    /\ lex = NoLex
    /\ char_signed = TRUE
    /\ pc = START_ADDR
    /\ \E w \in ByeWords, x \in ByeWords, t \in VmTos, s \in VmSps, r \in VmRps,
          a \in VmRet :
        /\ core = Wr(Wr(Wr(Wr(Wr(h2_new(START_ADDR).core, s, 7), r, a),
                           VmTarget, ByeAll), START_ADDR + 1, x), START_ADDR, w)
        /\ tos = t
        /\ sp = s
        /\ rp = r

NextBye ==
    \/ h2_run_step
    \/ h2_run_again

SpecBye == InitBye /\ [][NextBye]_vars

\* the driver of unix.c
UnixHandles == {0, 1, 2}

UnixReturns == {-1, 0, 1, 2}

UnixBytes == {ESCAPE, 65}

InitUnix ==
    /\ core = h2_new(START_ADDR).core
    /\ pc = h2_new(START_ADDR).pc
    /\ tos = h2_new(START_ADDR).tos
    /\ sp = h2_new(START_ADDR).sp
    /\ rp = h2_new(START_ADDR).rp
    /\ fence = h2_new(START_ADDR).pc
    /\ mode = MODE_NORMAL
    /\ pwd = 0
    /\ in_definition = FALSE
    /\ built_in_words_defined = FALSE
    /\ symbols = <<>>
    /\ ctl = <<>>
    /\ src = <<>>
    /\ rw = {}
    /\ phase = "unix_main"
    /\ block = NoBlock
    /\ load_r = 0
    /\ steps = 0
    /\ ret = 0
    /\ out = <<>>
    /\ rx = NoRx
    /\ drv = NoDrv
    /\ lex = NoLex
    /\ char_signed = TRUE

NextUnix ==
    \/ \E tty \in BOOLEAN, raw_negative \in BOOLEAN, h \in UnixHandles :
          unix_main(tty, raw_negative, h)
    \/ \E n \in {-1, 0, 1}, b \in UnixBytes, again \in BOOLEAN : unix_getch(n, b, again)
    \/ \E v \in UnixReturns : embed_vm_return(v)
    \/ usleep

SpecUnix == InitUnix /\ [][NextUnix]_vars

\* saving and loading an array of cells
ImgValues == {0, 255, 256, 43690, 65535}

InitImg ==
    \E c \in [0 .. MaxImgCells - 1 -> ImgValues], length \in 0 .. MaxImgCells :
        /\ core = c
        /\ pc = length
        /\ tos = 0
        /\ sp = VARIABLE_STACK_START
        /\ rp = RETURN_STACK_START
        /\ fence = START_ADDR
        /\ mode = MODE_NORMAL
        /\ pwd = 0
        /\ in_definition = FALSE
        /\ built_in_words_defined = FALSE
        /\ symbols = <<>>
        /\ ctl = <<>>
        /\ src = <<>>
        /\ rw = {}
        /\ phase = "asm"
        /\ block = NoBlock
        /\ load_r = 0
        /\ steps = 0
        /\ ret = 0
        /\ out = <<>>
        /\ rx = NoRx
        /\ drv = NoDrv
        /\ lex = NoLex
        /\ char_signed = TRUE

NextImg == main_assemble \/ image_load

SpecImg == InitImg /\ [][NextImg]_vars

\* both programs that read input: h2_run through wrap_getch, embed_vm through
\* unix_getch
InitInput == InitVm \/ InitUnix

NextInput == NextVm \/ NextUnix

SpecInput == InitInput /\ [][NextInput]_vars

\* sources of if ... else ... then constructs, nested or in a row, around the
\* instructions dup and exit and a call
IfInstructions == {CODE_DUP, CODE_EXIT}

BudgetIf == Stmts < MaxIfStmts

NextIf ==
    \/ src = <<>> /\ SYM_MODE(MODE_OPTIMIZATION_ON)
    \/ BudgetIf /\ SYM_IF1
    \/ BudgetIf /\ SYM_IF1_ELSE
    \/ BudgetIf /\ SYM_IF1_THEN
    \/ \E w \in IfInstructions : BudgetIf /\ SYM_INSTRUCTION(w)
    \/ BudgetIf /\ SYM_JUMP("call", TokLit(START_ADDR + 1))

SpecIf == Init /\ [][NextIf]_vars

\* the lexer on every input of up to MaxChars characters from ':', ';', ' ',
\* '(', ')' and 'a'
LexChars == {58, 59, 32, 40, 41, 97}

\* values of the uninitialised index
Uninit == {0, 1, MAX_ID_LENGTH - 1}

InitLex ==
    /\ core = h2_new(START_ADDR).core
    /\ pc = h2_new(START_ADDR).pc
    /\ tos = h2_new(START_ADDR).tos
    /\ sp = h2_new(START_ADDR).sp
    /\ rp = h2_new(START_ADDR).rp
    /\ fence = h2_new(START_ADDR).pc
    /\ mode = MODE_NORMAL
    /\ pwd = 0
    /\ in_definition = FALSE
    /\ built_in_words_defined = FALSE
    /\ symbols = <<>>
    /\ ctl = <<>>
    /\ src = <<>>
    /\ rw = {}
    /\ phase = "parse"
    /\ block = NoBlock
    /\ load_r = 0
    /\ steps = 0
    /\ ret = 0
    /\ out = <<>>
    /\ rx = NoRx
    /\ drv = NoDrv
    /\ char_signed = TRUE
    /\ \E n \in 0 .. MaxChars : \E inp \in [1 .. n -> LexChars] :
         lex = [NoLex EXCEPT !.input = inp]

NextLex == \E i \in Uninit : lexer_call(i)

SpecLex == InitLex /\ [][NextLex]_vars

\* sources of .mode and .built-in directives in any order
BudgetOnce == Len(src) < MaxOnceStmts

NextOnce ==
    \/ \E n \in {MODE_NORMAL, MODE_COMPILE_WORD_HEADER} : BudgetOnce /\ SYM_MODE(n)
    \/ \E x \in XTables : BudgetOnce /\ SYM_BUILT_IN(x)

SpecOnce == Init /\ [][NextOnce]_vars

\* sources that move pc to the last program cell and past it, and then call
\* here() (a label) or hole() (if) or emit a literal
OverPcs == {MAX_PROGRAM - 1, MAX_PROGRAM, MAX_PROGRAM + 1}

BudgetOver == Len(src) < MaxOverStmts

NextOver ==
    \/ \E n \in OverPcs : BudgetOver /\ SYM_PC(TokLit(n))
    \/ BudgetOver /\ SYM_ALLOCATE(TokLit(2))
    \/ \E id \in {Name_a, Name_b} : BudgetOver /\ SYM_LABEL(id)
    \/ BudgetOver /\ SYM_IF1
    \/ BudgetOver /\ SYM_LITERAL(1)

SpecOver == Init /\ [][NextOver]_vars

\* sources of locations, variables, constants and definitions, optimization on:
\* data cells holding a plain number, the word of a call and an ALU word
DataValues == {42, OP_CALL + START_ADDR + 1, CODE_DUP}

Name_A == <<65>>

BudgetData == src # <<>> /\ Stmts < MaxDataStmts

NextData ==
    \/ \E n \in {MODE_OPTIMIZATION_ON, MODE_COMPILE_WORD_HEADER + MODE_OPTIMIZATION_ON} :
          src = <<>> /\ SYM_MODE(n)
    \/ \E x \in XTables : BudgetData /\ SYM_BUILT_IN(x)
    \/ \E val \in {TokLit(n) : n \in DataValues} \cup {TokStr(Name_A)} :
          BudgetData /\ SYM_LOCATION(Name_v, val)
    \/ \E n \in DataValues, bits \in {0, DEFINE_HIDDEN} :
          BudgetData /\ SYM_VARIABLE(Name_wx, n, bits)
    \/ \E n \in DataValues : BudgetData /\ SYM_CONSTANT(Name_b, n, 0)
    \/ BudgetData /\ SYM_DEFINITION(Name_a, 0)
    \/ BudgetData /\ SYM_DEFINITION_END
    \/ BudgetData /\ SYM_INSTRUCTION(CODE_EXIT)

SpecData == Init /\ [][NextData]_vars

\* sources of labels, word definitions and jumps to them and to literal addresses
JumpTargets == {0, START_ADDR + 1, MAX_PROGRAM - 1, MAX_PROGRAM, MAX_PROGRAM + 1, 65535}

JumpToks == {TokLit(n) : n \in JumpTargets} \cup {TokId(Name_a), TokId(Name_b)}

BudgetJump == Len(src) < MaxJumpStmts

NextJump ==
    \/ BudgetJump /\ SYM_LABEL(Name_a)
    \/ BudgetJump /\ SYM_DEFINITION(Name_b, 0)
    \/ \E type \in {"branch", "0branch", "call"}, tok \in JumpToks :
          BudgetJump /\ SYM_JUMP(type, tok)

SpecJump == Init /\ [][NextJump]_vars

\* one `location v "string"`: pack_string applied to strings of every length up
\* to MaxPackLen and of the lengths around 127 and 255, in builds of either kind
PackChars == {65, 97, 98, 122}

LongLens == {127, 128, 255, 256}

PackStrings ==
    UNION {[1 .. n -> PackChars] : n \in 0 .. MaxPackLen}
    \cup {[i \in 1 .. n |-> IF i % 2 = 1 THEN 97 ELSE 98] : n \in LongLens}
    \cup {[i \in 1 .. n |-> 122] : n \in LongLens}

InitPack ==
    /\ core = h2_new(START_ADDR).core
    /\ pc = h2_new(START_ADDR).pc
    /\ tos = h2_new(START_ADDR).tos
    /\ sp = h2_new(START_ADDR).sp
    /\ rp = h2_new(START_ADDR).rp
    /\ fence = h2_new(START_ADDR).pc
    /\ mode = MODE_NORMAL
    /\ pwd = 0
    /\ in_definition = FALSE
    /\ built_in_words_defined = FALSE
    /\ symbols = <<>>
    /\ ctl = <<>>
    /\ src = <<>>
    /\ rw = {}
    /\ phase = "asm"
    /\ block = NoBlock
    /\ load_r = 0
    /\ steps = 0
    /\ ret = 0
    /\ out = <<>>
    /\ rx = NoRx
    /\ drv = NoDrv
    /\ lex = NoLex
    /\ char_signed \in BOOLEAN

NextPack == \E str \in PackStrings : src = <<>> /\ SYM_LOCATION(Name_v, TokStr(str))

SpecPack == InitPack /\ [][NextPack]_vars

\* sources of definitions, constants, variables and .built-in, word headers enabled
BudgetChain == src # <<>> /\ Stmts < MaxChainStmts

ChainBits == {0, DEFINE_IMMEDIATE + DEFINE_INLINE, DEFINE_HIDDEN}

NextChain ==
    \/ \E n \in {MODE_COMPILE_WORD_HEADER, MODE_COMPILE_WORD_HEADER + MODE_OPTIMIZATION_ON} :
          src = <<>> /\ SYM_MODE(n)
    \/ \E x \in XTables : BudgetChain /\ SYM_BUILT_IN(x)
    \/ \E id \in {Name_a, Name_b}, bits \in ChainBits : BudgetChain /\ SYM_DEFINITION(id, bits)
    \/ BudgetChain /\ SYM_DEFINITION_END
    \/ \E bits \in {0, DEFINE_HIDDEN} : BudgetChain /\ SYM_CONSTANT(Name_v, 42, bits)
    \/ \E bits \in {0, DEFINE_HIDDEN} : BudgetChain /\ SYM_VARIABLE(Name_wx, 42, bits)

SpecChain == Init /\ [][NextChain]_vars

(***************************************************************************)
(* Properties.                                                             *)
(***************************************************************************)
Last == src[Len(src)]

\* the value a literal or identifier token of a directive stands for
TokValue(tok) ==
    IF tok.type = "literal" THEN tok.number
    ELSE IF symbol_table_lookup(symbols, tok.id) = 0 THEN 0
    ELSE symbols[symbol_table_lookup(symbols, tok.id)].value

\* a .pc or .set directive aimed below START_ADDR
LowDirective(st) ==
    \/ st.op = "pc" /\ TokValue(st.tok) < START_ADDR
    \/ st.op = "set" /\ Shr(TokValue(st.tok), 1) < START_ADDR

PrefixIntact ==
    \A i \in 0 .. START_ADDR - 1 : Rd(core, i) = BitOr(OP_BRANCH, START_ADDR)

\* cell i of the saved block
BlockCell(i) == BitOr(block.bytes[2 * i + 1], Shl(block.bytes[2 * i + 2], 8))

\* C1 as stated: every successfully assembled image keeps the branches to
\* START_ADDR in its cells 0 .. START_ADDR-1, whatever directives the source uses.
C1_AnySource == phase = "saved" => PrefixIntact

\* C1, amended: when the source has no .pc directive with a target below
\* START_ADDR and no .set directive whose location >> 1 is below START_ADDR, the
\* cells 0 .. START_ADDR-1 of the image, in memory and in the saved block, all
\* equal OP_BRANCH | START_ADDR, and the machine reaches START_ADDR in one step
\* from every pc below START_ADDR.
C1_PrefixKept ==
    (phase \in {"asm", "saved"} /\ \A k \in 1 .. Len(src) : ~LowDirective(src[k]))
    => /\ PrefixIntact
       /\ pc >= START_ADDR
       /\ phase = "saved"
          => \A i \in 0 .. START_ADDR - 1 :
                /\ BlockCell(i) = BitOr(OP_BRANCH, START_ADDR)
                /\ Exec([core |-> core, pc |-> i, tos |-> tos, sp |-> sp, rp |-> rp], EOF).m.pc
                   = START_ADDR

\* an image was saved from a source that moves pc and patches memory at or
\* above START_ADDR
C1_Witness ==
    /\ phase = "saved"
    /\ \A k \in 1 .. Len(src) : ~LowDirective(src[k])
    /\ \E k \in 1 .. Len(src) : src[k].op = "pc"
    /\ \E k \in 1 .. Len(src) : src[k].op = "set"
    /\ \E k \in 1 .. Len(src) : src[k].op = "allocate"

\* C3: across an assembly pass the fence never decreases.
C3_FenceMonotonic == [][fence' >= fence]_vars

\* the fence was raised by a directive and again by a peephole rewrite
C3_Witness ==
    /\ rw # {}
    /\ \E k \in 1 .. Len(src) : src[k].op = "pc"
    /\ fence > START_ADDR

\* C4 as stated: a cell the optimizer rewrites lies strictly above the fence.
C4_StrictlyAbove == \A r \in rw : r.cell > r.fence

\* C4, amended: a cell the optimizer rewrites is never below the fence; an EXIT
\* merge rewrites a cell strictly above the fence, a tail-call rewrite may
\* rewrite the cell at the fence itself.
C4_NotBelow ==
    \A r \in rw : r.cell >= r.fence /\ (r.kind = "merge" => r.cell > r.fence)

\* an EXIT merge happened in this pass's last statement
C4_Witness == \E r \in rw : r.kind = "merge" /\ Rd(core, r.cell) # CODE_EXIT

\* the last statement is a jump of this type to an identifier naming a call symbol
JumpToCall(types) ==
    /\ src # <<>>
    /\ Last.op \in types
    /\ Last.tok.type = "identifier"
    /\ symbol_table_lookup(symbols, Last.tok.id) # 0
    /\ symbols[symbol_table_lookup(symbols, Last.tok.id)].type = "call"

\* C7: a branch or 0branch to a call-typed symbol ends the pass in an error with
\* no block saved; a call to the same symbol is assembled as OP_CALL | value.
C7_BranchToCallRejected ==
    /\ JumpToCall({"branch", "0branch"}) => (phase = "error" /\ ~block.exists)
    /\ (JumpToCall({"call"}) /\ pc <= MAX_PROGRAM /\ phase \in {"asm", "error"})
       => /\ phase = "asm"
          /\ Rd(core, pc - 1)
             = BitOr(OP_CALL, symbols[symbol_table_lookup(symbols, Last.tok.id)].value)

C7_Witness == JumpToCall({"0branch"}) /\ phase = "error" /\ Len(symbols) = 1

\* the k-th statement from the end of the source (k = 0: the last)
Back(k) == src[Len(src) - k]

OptimizationOn == BitAnd(mode, MODE_OPTIMIZATION_ON) # 0

\* the address a defined word was given
WordAddr(tok) == symbols[symbol_table_lookup(symbols, tok.id)].value

\* an ALU word the EXIT merge accepts
Mergeable(w) ==
    IS_ALU_OP(w) /\ BitAnd(w, R_TO_PC) = 0 /\ BitAnd(w, MK_RSTACK(DELTA_N1)) = 0

\* the source ends with ": id w ;" for a single ALU instruction w
SingleAluBody ==
    /\ Len(src) >= 3
    /\ phase = "asm"
    /\ Back(2).op = "define"
    /\ Back(1).op = "instruction"
    /\ Back(0).op = "enddefine"

\* the source ends with "... w1 w2 ;" for two ALU instructions of one body,
\* neither of them the instruction exit, which is itself subject to the merge
TwoAluTail ==
    /\ Len(src) >= 4
    /\ phase = "asm"
    /\ Back(2).op = "instruction" /\ Back(2).tok.number # CODE_EXIT
    /\ Back(1).op = "instruction" /\ Back(1).tok.number # CODE_EXIT
    /\ Back(0).op = "enddefine"

\* C5 as stated: with optimization on, a definition whose body is one ALU
\* instruction without R->PC and without return-stack decrement occupies exactly
\* one cell, the instruction merged with CODE_EXIT.
C5_SingleCell ==
    (SingleAluBody /\ OptimizationOn /\ Mergeable(Back(1).tok.number))
    => /\ pc = WordAddr(Back(2).tok) + 1
       /\ Rd(core, WordAddr(Back(2).tok)) = BitOr(Back(1).tok.number, CODE_EXIT)

\* C5, amended: the EXIT merge needs the ALU cell strictly above the fence, and
\* a definition raises the fence to its first body cell; so with optimization on
\* a body of one ALU instruction occupies two cells, the instruction and
\* CODE_EXIT, and the merge into one cell happens for the last of two or more
\* body cells when it has neither R->PC nor return-stack delta bits set.
C5_MergePastFence ==
    /\ SingleAluBody
       => /\ pc = WordAddr(Back(2).tok) + 2
          /\ Rd(core, WordAddr(Back(2).tok)) = Back(1).tok.number
          /\ Rd(core, WordAddr(Back(2).tok) + 1) = CODE_EXIT
          /\ rw = {}
    /\ (TwoAluTail /\ OptimizationOn /\ Mergeable(Back(1).tok.number))
       => /\ Rd(core, pc - 1) = BitOr(Back(1).tok.number, CODE_EXIT)
          /\ Rd(core, pc - 2) = Back(2).tok.number
          /\ rw # {}
          /\ \A r \in rw : r.cell = pc - 1 /\ r.kind = "merge" /\ r.fence < r.cell
    /\ (TwoAluTail /\ ~(OptimizationOn /\ Mergeable(Back(1).tok.number)))
       => /\ Rd(core, pc - 1) = CODE_EXIT
          /\ Rd(core, pc - 2) = Back(1).tok.number
          /\ rw = {}

\* ".mode 2 : a dup ;" and ".mode 2 : a dup dup ;" were both assembled
C5_Witness ==
    /\ OptimizationOn
    /\ Len(src) = 8
    /\ SingleAluBody
    /\ Back(1).tok.number = CODE_DUP
    /\ Back(3).op = "enddefine"
    /\ Back(4).op = "instruction" /\ Back(4).tok.number = CODE_DUP
    /\ Back(5).op = "instruction" /\ Back(5).tok.number = CODE_DUP
    /\ Back(6).op = "define"
    /\ Rd(core, WordAddr(Back(6).tok) + 1) = BitOr(CODE_DUP, CODE_EXIT)

\* the source ends with "... a ;" where a names a defined word
CallTail ==
    /\ Len(src) >= 2
    /\ phase = "asm"
    /\ Back(1).op = "call-definition"
    /\ symbol_table_lookup(symbols, Back(1).tok.id) # 0
    /\ symbols[symbol_table_lookup(symbols, Back(1).tok.id)].type = "call"
    /\ Back(0).op = "enddefine"

\* the source ends with ": b a ;"
SingleCallBody == CallTail /\ Len(src) >= 3 /\ Back(2).op = "define"

\* C6: with optimization on, a definition whose last body statement is a call
\* to a word ends in the cell OP_BRANCH | address of that word, with no call and
\* no CODE_EXIT after it, so the body ": b a ;" is that single cell; with
\* optimization off the body ends in the call followed by CODE_EXIT.
C6_TailCall ==
    /\ CallTail
       => IF OptimizationOn
          THEN /\ Rd(core, pc - 1) = BitOr(OP_BRANCH, WordAddr(Back(1).tok))
               /\ rw = {[cell |-> pc - 1, fence |-> pc - 1, kind |-> "tailcall"]}
          ELSE /\ Rd(core, pc - 2) = BitOr(OP_CALL, WordAddr(Back(1).tok))
               /\ Rd(core, pc - 1) = CODE_EXIT
               /\ rw = {}
    /\ SingleCallBody
       => pc = WordAddr(Back(2).tok) + (IF OptimizationOn THEN 1 ELSE 2)

\* ".mode 2 : a 1 ; : b a ;" was assembled
C6_Witness ==
    /\ OptimizationOn
    /\ SingleCallBody
    /\ Back(2).tok = TokId(Name_b)
    /\ Back(1).tok = TokId(Name_a)
    /\ Len(src) = 7
    /\ Back(4).op = "literal"

\* the statements of the source after a leading .mode directive
Off == IF src # <<>> /\ src[1].op = "mode" THEN 1 ELSE 0

Prog(k) == src[k + Off]

\* the cells a statement of a run source assembles to
StmtCells(st) ==
    CASE st.op = "literal" -> IF BitAnd(st.tok.number, OP_LITERAL) # 0 THEN 2 ELSE 1
      [] st.op \in {"instruction", "until"} -> 1
      [] OTHER -> 0

RECURSIVE CellsUpTo(_)
CellsUpTo(j) == IF j = 0 THEN 0 ELSE CellsUpTo(j - 1) + StmtCells(Prog(j))

OnlyLiterals == \A k \in 1 .. Stmts : Prog(k).op = "literal"

\* C2: for a source of literals, in both optimization modes, once the machine
\* has executed the cells emitted for the first j literals, tos is the j-th
\* literal, sp has grown by one per literal, the cell at sp holds the previous
\* top of stack and pc is just past the emitted cells.
C2_LiteralRoundTrip ==
    OnlyLiterals
    => /\ phase = "asm" => pc = START_ADDR + CellsUpTo(Stmts)
       /\ phase = "run"
          => \A j \in 1 .. Stmts :
                steps = CellsUpTo(j)
                => /\ tos = Prog(j).tok.number
                   /\ sp = VARIABLE_STACK_START + j
                   /\ Rd(core, sp) = (IF j = 1 THEN 0 ELSE Prog(j - 1).tok.number)
                   /\ pc = START_ADDR + CellsUpTo(j)
                   /\ rp = RETURN_STACK_START

\* ".mode 2  32767  43690" has run to the end of its three cells
C2_Witness ==
    /\ phase = "run"
    /\ OnlyLiterals
    /\ OptimizationOn
    /\ Stmts = 2
    /\ Prog(1).tok.number = 32767
    /\ Prog(2).tok.number = 43690
    /\ steps = 3
    /\ tos = 43690

\* the source is "a b + bye"
AddBye ==
    /\ Stmts = 4
    /\ Prog(1).op = "literal"
    /\ Prog(2).op = "literal"
    /\ Prog(3).op = "instruction" /\ Prog(3).tok.number = CODE_ADD
    /\ Prog(4).op = "instruction" /\ Prog(4).tok.number = CODE_BYE

\* C9: h2_run returns when it executes a BYE, and the value returned is the top
\* of stack, a value in 0 .. 65535; the image of "a b + bye" returns
\* (a + b) mod 2^16 after executing each of its cells once.
C9_ByeReturnsTos ==
    /\ phase = "returned"
       => /\ ret = tos
          /\ ret \in 0 .. W16 - 1
          /\ IS_ALU_OP(Rd(core, pc))
          /\ ALU_OP(Rd(core, pc)) = ALU_OP_BYE
    /\ AddBye
       => /\ phase \in {"asm", "saved", "run", "returned"}
          /\ phase = "run" => steps < CellsUpTo(4)
          /\ phase = "returned"
             => /\ steps = CellsUpTo(4)
                /\ ret = (Prog(1).tok.number + Prog(2).tok.number) % W16

\* "1 2 + bye" has returned 3
C9_Witness ==
    /\ AddBye
    /\ Prog(1).tok.number = 1
    /\ Prog(2).tok.number = 2
    /\ phase = "returned"
    /\ ret = 3

\* the source ends with "begin 0 until"
EndsWithLoop ==
    /\ Len(src) >= 3
    /\ Back(2).op = "begin"
    /\ Back(1).op = "literal" /\ Back(1).tok.number = 0
    /\ Back(0).op = "until"

\* the source is literals followed by "begin 0 until"
LoopSource == EndsWithLoop /\ \A k \in 1 .. Stmts - 3 : Prog(k).op = "literal"

\* the address of the loop, and sp and tos when the machine enters it
LoopA == START_ADDR + CellsUpTo(Stmts - 3)

LoopS == VARIABLE_STACK_START + (Stmts - 3)

LoopT == IF Stmts = 3 THEN 0 ELSE Prog(Stmts - 3).tok.number

\* C10: "begin 0 until" assembles to a literal 0 at an address A followed by
\* OP_0BRANCH | A; once the machine has entered the loop it keeps running, at pc
\* A with the entry sp and tos or at pc A+1 with sp one higher, the entry tos
\* stored at sp and tos 0, and rp never changes.
C10_LoopForever ==
    /\ (EndsWithLoop /\ phase = "asm")
       => /\ Rd(core, pc - 2) = BitOr(OP_LITERAL, 0)
          /\ Rd(core, pc - 1) = BitOr(OP_0BRANCH, pc - 2)
    /\ (LoopSource /\ phase \notin {"asm", "saved"})
       => /\ phase = "run"
          /\ rp = RETURN_STACK_START
          /\ steps < MaxSteps => ENABLED h2_run_step
          /\ steps >= CellsUpTo(Stmts - 3)
             => IF (steps - CellsUpTo(Stmts - 3)) % 2 = 0
                THEN pc = LoopA /\ sp = LoopS /\ tos = LoopT
                ELSE /\ pc = LoopA + 1
                     /\ sp = LoopS + 1
                     /\ tos = 0
                     /\ Rd(core, sp) = LoopT

\* "43690 begin 0 until" is back at the head of the loop after two rounds
C10_Witness ==
    /\ LoopSource
    /\ Stmts = 4
    /\ LoopT = 43690
    /\ phase = "run"
    /\ steps = CellsUpTo(1) + 4
    /\ pc = LoopA

\* the cells a name packs to: its length and first character, then the
\* following characters two to a cell, low byte first
NameCells(id) ==
    << Len(id) + 256 * id[1] >> \o
    [j \in 1 .. (Len(id) \div 2) |-> CharAt(id, 2 * j - 1) + 256 * CharAt(id, 2 * j)]

\* a step that assembles "variable id n" with headers on and .built-in done
VariableStep ==
    /\ phase = "asm" /\ phase' = "asm"
    /\ Len(src') = Len(src) + 1
    /\ src'[Len(src')].op = "variable"
    /\ BitAnd(src'[Len(src')].bits, DEFINE_HIDDEN) = 0
    /\ BitAnd(mode, MODE_COMPILE_WORD_HEADER) # 0
    /\ built_in_words_defined

DoVarAddr == symbols[symbol_table_lookup(symbols, Name_doVar)].value

\* C11: with word headers on and .built-in assembled, "variable v n" emits, in
\* order, a cell with the previous pwd, the packed name, a call to doVar and a
\* cell with n; v is added as a variable whose value is the byte address of
\* that last cell, and pwd becomes the byte address of the header cell
C11_VariableHeader ==
    [][VariableStep =>
         LET st == src'[Len(src')]
             k  == Len(NameCells(st.tok.id))
         IN  /\ symbol_table_lookup(symbols, Name_doVar) # 0
             /\ Rd(core', pc) = pwd
             /\ \A i \in 1 .. k : Rd(core', pc + i) = NameCells(st.tok.id)[i]
             /\ Rd(core', pc + k + 1) = OP_CALL + DoVarAddr
             /\ Rd(core', pc + k + 2) = st.val.number
             /\ pc' = pc + k + 3
             /\ symbols' = Append(symbols, [id |-> st.tok.id, value |-> 2 * (pc + k + 2),
                                            type |-> "variable", hidden |-> FALSE])
             /\ pwd' = 2 * pc]_vars

C11_Witness ==
    /\ phase = "asm"
    /\ Len(src) = 3
    /\ src[2].op = "built-in"
    /\ Last.op = "variable" /\ Last.tok.id = Name_v /\ Last.val.number = 42 /\ Last.bits = 0
    /\ BitAnd(mode, MODE_COMPILE_WORD_HEADER) # 0
    /\ symbols[Len(symbols)].id = Name_v
    /\ symbols[Len(symbols)].type = "variable"
    /\ symbols[Len(symbols)].value = 2 * (pc - 1)
    /\ Rd(core, pc - 1) = 42
    /\ Rd(core, pc - 3) = 118 * 256 + 1
    /\ Rd(core, pc - 4) # 0
    /\ pwd = 2 * (pc - 4)


\* the flag bits of an ALU word
Flags(w) ==
    BitAnd(w, T_TO_N) + BitAnd(w, T_TO_R) + BitAnd(w, N_TO_ADDR_T) + BitAnd(w, R_TO_PC)

RunStep == phase = "run" /\ phase' = "run" /\ steps' = steps + 1

\* C13: a literal, an ALU word without R_TO_PC and a 0branch that is not taken
\* continue at (pc + 1) mod MAX_PROGRAM; a call pushes twice that value
C13_CircularPc ==
    [][RunStep =>
         LET w == Rd(core, pc)
         IN  /\ (\/ IS_LITERAL(w)
                 \/ IS_ALU_OP(w) /\ BitAnd(w, R_TO_PC) = 0
                 \/ IS_0BRANCH(w) /\ tos # 0)
                => pc' = (pc + 1) % MAX_PROGRAM
             /\ IS_CALL(w) =>
                  /\ rp' = rp + 1
                  /\ Rd(core', rp') = 2 * ((pc + 1) % MAX_PROGRAM)]_vars

C13_Witness ==
    /\ phase = "run" /\ steps = 1
    /\ pc = 0
    /\ IS_LITERAL(Rd(core, MAX_PROGRAM - 1))
    /\ tos = 1


NoDup(t) == \A i, j \in 1 .. Len(t) : t[i].id = t[j].id => i = j

\* C14: the symbol table never holds an id twice, only grows at its end,
\* lookup finds each entry by its id and finds nothing for an absent id, and a
\* variable whose name is already in the table is an error that leaves the
\* table as it was
C14_SymbolTable ==
    [][/\ NoDup(symbols')
       /\ Len(symbols') >= Len(symbols)
       /\ SubSeq(symbols', 1, Len(symbols)) = symbols
       /\ \A i \in 1 .. Len(symbols') :
            LET k == symbol_table_lookup(symbols', symbols'[i].id)
            IN  k # 0 /\ symbols'[k].id = symbols'[i].id
       /\ \A id \in HdrNames :
            symbol_table_lookup(symbols', id) = 0
            <=> \A i \in 1 .. Len(symbols') : symbols'[i].id # id
       /\ (/\ Len(src') = Len(src) + 1
           /\ src'[Len(src')].op = "variable"
           /\ symbol_table_lookup(symbols, src'[Len(src')].tok.id) # 0)
          => (symbols' = symbols /\ phase' = "error")]_vars

C14_Witness ==
    /\ phase = "error"
    /\ Len(src) = 4
    /\ src[2].op = "built-in"
    /\ src[3].op = "variable" /\ src[3].bits = 0
    /\ Last.op = "variable" /\ Last.bits = 0
    /\ src[3].tok.id = Last.tok.id
    /\ BitAnd(mode, MODE_COMPILE_WORD_HEADER) # 0
    /\ Len(symbols) >= 4
    /\ symbols[Len(symbols)].id = Last.tok.id
    /\ Rd(core, symbols[Len(symbols)].value \div 2) = src[3].val.number


\* C15: main calls embed_vm again, after usleep, exactly when the call before
\* returned a positive value; the first value that is not positive ends the
\* loop and is what main returns; every call is given the one handle
C15_DriverReentry ==
    /\ \A i \in 1 .. Len(drv.passed) : drv.passed[i] = drv.h
    /\ phase = "unix_vm" =>
         /\ Len(drv.rets) = Len(drv.passed) - 1
         /\ \A i \in 1 .. Len(drv.rets) : drv.rets[i] > 0
    /\ phase = "unix_sleep" =>
         /\ Len(drv.rets) = Len(drv.passed)
         /\ \A i \in 1 .. Len(drv.rets) : drv.rets[i] > 0
    /\ phase = "returned" =>
         /\ Len(drv.rets) = Len(drv.passed)
         /\ \A i \in 1 .. Len(drv.rets) - 1 : drv.rets[i] > 0
         /\ drv.rets[Len(drv.rets)] <= 0
         /\ ret = drv.rets[Len(drv.rets)]

C15_Witness ==
    /\ phase = "returned"
    /\ drv.h = 2
    /\ drv.passed = <<2, 2, 2>>
    /\ drv.rets = <<1, 2, -1>>
    /\ ret = -1


\* a step in which getch returned a value
ReadStep == Len(rx'.read) = Len(rx.read) + 1

\* C16: ESCAPE read by unix_getch, and EOF or ESCAPE read by the RX of h2_run,
\* end the process with EXIT_SUCCESS; the value is not handed on, and the RX
\* instruction leaves the machine as it found it.  Every other value is handed
\* on, and a process exits only this way
C16_Cancellation ==
    [][/\ (phase = "unix_vm" /\ ReadStep) =>
            LET v == rx'.read[Len(rx'.read)]
            IN  IF v = ESCAPE
                THEN /\ phase' = "exited" /\ ret' = EXIT_SUCCESS
                     /\ rx'.got = rx.got /\ drv' = drv
                ELSE /\ phase' = "unix_vm"
                     /\ Len(rx'.got) = Len(rx.got) + 1
                     /\ rx'.got[Len(rx'.got)].r = v
       /\ (phase = "run" /\ ReadStep) =>
            LET v == rx'.read[Len(rx'.read)]
            IN  IF v \in {EOF, ESCAPE}
                THEN /\ phase' = "exited" /\ ret' = EXIT_SUCCESS
                     /\ rx'.got = rx.got /\ hvars' = hvars /\ out' = out
                ELSE /\ phase' = "run"
                     /\ rx'.got = Append(rx.got, v)
                     /\ tos' = v
       /\ (phase # "exited" /\ phase' = "exited") =>
            /\ ReadStep
            /\ rx'.read[Len(rx'.read)] \in {EOF, ESCAPE}]_vars

C16_Witness ==
    /\ phase = "exited" /\ ret = EXIT_SUCCESS
    /\ drv.passed = <<1>>
    /\ rx.read = <<65, ESCAPE>>
    /\ rx.got = <<[r |-> 65, no_data |-> 0]>>


\* C17: saving length cells writes 2 * length bytes, each cell as its low
\* byte and then its high byte, and loading them with the same length into
\* another array succeeds and gives back every one of the cells
C17_ImageRoundTrip ==
    [][/\ (phase = "asm" /\ phase' = "saved") =>
            /\ block'.exists
            /\ Len(block'.bytes) = 2 * pc
            /\ \A a \in 0 .. pc - 1 :
                 /\ block'.bytes[2 * a + 1] = Rd(core, a) % 256
                 /\ block'.bytes[2 * a + 2] = Rd(core, a) \div 256
       /\ (phase = "saved" /\ phase' = "loaded") =>
            /\ load_r' = 0
            /\ \A a \in 0 .. pc - 1 : Rd(core', a) = Rd(core, a)]_vars

C17_Witness ==
    /\ phase = "loaded"
    /\ pc = 3
    /\ load_r = 0
    /\ block.bytes = <<170, 170, 0, 1, 255, 0>>
    /\ Rd(core, 0) = 43690 /\ Rd(core, 1) = 256 /\ Rd(core, 2) = 255
    /\ Rd(core, 3) = OP_BRANCH + START_ADDR


\* a step that assembles the ';' of a definition: generate(h, a, CODE_EXIT)
ExitStep ==
    /\ phase = "asm" /\ phase' = "asm"
    /\ Len(src') = Len(src) + 1
    /\ src'[Len(src')].op = "enddefine"

\* the cell before pc is an ALU word above the fence, without R_TO_PC
AluPastFence ==
    /\ OptimizationOn
    /\ pc - 1 > fence
    /\ IS_ALU_OP(Rd(core, pc - 1))
    /\ BitAnd(Rd(core, pc - 1), R_TO_PC) = 0

\* the tail-call rule applies
CallPastFence == OptimizationOn /\ pc > fence /\ IS_CALL(Rd(core, pc - 1))

ExitMerged == pc' = pc /\ core' = Wr(core, pc - 1, BitOr(Rd(core, pc - 1), CODE_EXIT))

ExitEmitted == pc' = pc + 1 /\ core' = Wr(core, pc, CODE_EXIT)

\* C18 as stated: CODE_EXIT is merged into the previous cell exactly when that
\* cell is an ALU word past the fence without R_TO_PC and without an r-stack
\* delta of -1; otherwise, unless the tail-call rule applies, it is emitted
C18_MergeUnlessDeltaN1 ==
    [][ExitStep =>
         /\ ExitMerged <=> (AluPastFence /\ RSTACK(Rd(core, pc - 1)) # DELTA_N1)
         /\ (~ExitMerged /\ ~CallPastFence) => ExitEmitted]_vars

\* C18, amended: the merge needs the r-stack delta field of the previous cell
\* to be zero: a word with an r-stack delta of +1 or -2 is not merged either,
\* and CODE_EXIT is emitted after it.  ": one 1 ;" is 0x8001, CODE_EXIT
C18_MergeCondition ==
    [][ExitStep =>
         /\ ExitMerged <=> (AluPastFence /\ RSTACK(Rd(core, pc - 1)) = DELTA_0)
         /\ (~ExitMerged /\ ~CallPastFence) => ExitEmitted
         /\ (src[Len(src)].op = "literal" /\ src[Len(src)].tok.number = 1)
            => (Rd(core', pc' - 2) = 32769 /\ Rd(core', pc' - 1) = CODE_EXIT)]_vars

\* ".mode 2 : a dup >r ;": the word >r has an r-stack delta of +1 and is
\* followed by a CODE_EXIT of its own
C18_Witness ==
    /\ OptimizationOn
    /\ phase = "asm"
    /\ Len(src) = 5
    /\ Back(3).op = "define"
    /\ Back(2).op = "instruction" /\ Back(2).tok.number = CODE_DUP
    /\ Back(1).op = "instruction" /\ Back(1).tok.number = CODE_TOR
    /\ Back(0).op = "enddefine"
    /\ RSTACK(CODE_TOR) = DELTA_1
    /\ pc - 2 > fence
    /\ Rd(core, pc - 2) = CODE_TOR
    /\ Rd(core, pc - 1) = CODE_EXIT


\* the machine of the current state with memory c
Machine(c) == [core |-> c, pc |-> pc, tos |-> tos, sp |-> sp, rp |-> rp]

\* the cell at pc taken as the last word of a definition: generate(CODE_EXIT)
\* called with h->pc one past it and the fence below it, in the given mode
CloseWord(md) ==
    generate([core |-> core, pc |-> pc + 1, fence |-> 0, rw |-> {}, abort |-> FALSE],
             md, CODE_EXIT)

\* two machines agree on the registers and on every cell but the two code cells
SameOutcome(m1, m2) ==
    /\ m1.pc = m2.pc /\ m1.tos = m2.tos /\ m1.sp = m2.sp /\ m1.rp = m2.rp
    /\ \A a \in ((DOMAIN m1.core) \cup (DOMAIN m2.core)) \ {pc, pc + 1} :
         Rd(m1.core, a) = Rd(m2.core, a)

\* C19 as stated: when the optimizer merges CODE_EXIT into the ALU word at pc,
\* running the merged word from any machine state ends in the same pc, tos, sp,
\* rp and memory as running the word and then CODE_EXIT
C19_MergePreservesSemantics ==
    (phase = "run" /\ pc + 1 < MAX_PROGRAM /\ IS_ALU_OP(Rd(core, pc))) =>
        LET merged == CloseWord(MODE_OPTIMIZATION_ON)
            plain  == CloseWord(MODE_NORMAL)
            m1     == Exec(Machine(merged.core), EOF)
            u1     == Exec(Machine(plain.core), EOF)
            u2     == Exec(u1.m, EOF)
        IN  (/\ merged.pc = pc + 1
             /\ plain.pc = pc + 2
             /\ m1.st = "running" /\ u1.st = "running" /\ u2.st = "running")
            => SameOutcome(m1.m, u2.m)

\* the same for words that write neither T to the return stack nor N to
\* memory, on machines whose data stack does not reach the return stack
C19_MergeWithoutStores ==
    (phase = "run" /\ pc + 1 < MAX_PROGRAM /\ IS_ALU_OP(Rd(core, pc))) =>
        LET merged == CloseWord(MODE_OPTIMIZATION_ON)
            plain  == CloseWord(MODE_NORMAL)
            m1     == Exec(Machine(merged.core), EOF)
            u1     == Exec(Machine(plain.core), EOF)
            u2     == Exec(u1.m, EOF)
        IN  (/\ merged.pc = pc + 1
             /\ plain.pc = pc + 2
             /\ BitAnd(Rd(core, pc), T_TO_R + N_TO_ADDR_T) = 0
             /\ m1.st = "running" /\ u1.st = "running" /\ u2.st = "running")
            => SameOutcome(m1.m, u2.m)


\* an ALU word that returns: R_TO_PC and an r-stack delta of -1
ReturnWord(w) == IS_ALU_OP(w) /\ BitAnd(w, R_TO_PC) # 0 /\ RSTACK(w) = DELTA_N1

\* the machine after the first return word executed within n steps of m with
\* rp at level and the cell there equal to cell
RECURSIVE Resume(_, _, _, _)
Resume(m, level, cell, n) ==
    IF n = 0 \/ ~InCore(m.pc) THEN [found |-> FALSE]
    ELSE LET r == Exec(m, EOF)
         IN  IF r.st # "running" THEN [found |-> FALSE]
             ELSE IF ReturnWord(Rd(m.core, m.pc)) /\ m.rp = level
                     /\ Rd(m.core, level) = cell
             THEN [found |-> TRUE, m |-> r.m]
             ELSE Resume(r.m, level, cell, n - 1)

\* C20: a call at pc pushes 2 * ((pc + 1) mod MAX_PROGRAM) at rp + 1 and jumps
\* to its 13-bit target; a return word executed later with rp at that level
\* and the cell as the call left it resumes at (pc + 1) mod MAX_PROGRAM with
\* rp as it was before the call
C20_CallReturn ==
    (phase = "run" /\ InCore(pc) /\ IS_CALL(Rd(core, pc))) =>
        LET c    == Exec(Machine(core), EOF)
            addr == 2 * ((pc + 1) % MAX_PROGRAM)
            back == Resume(c.m, rp + 1, addr, MaxSteps)
        IN  c.st = "running" =>
              /\ c.m.rp = rp + 1
              /\ Rd(c.m.core, rp + 1) = addr
              /\ c.m.pc = Rd(core, pc) % 8192
              /\ back.found => (back.m.pc = (pc + 1) % MAX_PROGRAM /\ back.m.rp = rp)

\* the call at MAX_PROGRAM - 1 to "dup exit" has returned to cell 0
C20_Witness ==
    /\ phase = "run" /\ steps = 3
    /\ Rd(core, MAX_PROGRAM - 1) = OP_CALL + VmTarget
    /\ Rd(core, VmTarget) = CODE_DUP
    /\ Rd(core, VmTarget + 1) = CODE_EXIT
    /\ pc = 0
    /\ rp \in VmRps
    /\ Rd(core, rp + 1) = 0
    /\ sp \in {s + 1 : s \in VmSps}


\* the change of a stack pointer a two-bit delta code stands for
DeltaOf(code) == CASE code = 0 -> 0 [] code = 1 -> 1 [] code = 2 -> -2 [] code = 3 -> -1

\* a completed iteration that executed an ALU word
AluStep == RunStep /\ IS_ALU_OP(Rd(core, pc))

\* memory after the transfers of the word w, done in the order T->R, T->N,
\* N->[T] with the pointers s and r and the operands t and n
Transfers(c, w, s, r, t, n) ==
    LET c1 == IF BitAnd(w, T_TO_R) # 0 THEN Wr(c, r, t) ELSE c
        c2 == IF BitAnd(w, T_TO_N) # 0 THEN Wr(c1, s, t) ELSE c1
    IN  IF BitAnd(w, N_TO_ADDR_T) # 0 THEN Wr(c2, t \div 2, n) ELSE c2

\* C21: an ALU instruction reads tos, memory[sp], memory[rp] and memory[tos >> 1]
\* as they are before the instruction; sp and rp then change by the deltas
\* 0, +1, -2, -1 of their codes, modulo 2^16; the stores of T->R, T->N and
\* N->[T] then write the old tos at the new rp, the old tos at the new sp and
\* the old second item at old tos >> 1, in this order; tos and pc are the
\* values computed from the old state
C21_AluStepOrder ==
    [][AluStep =>
         LET w  == Rd(core, pc)
             n0 == Rd(core, sp)
             r0 == Rd(core, rp)
             s1 == (sp + W16 + DeltaOf(DSTACK(w))) % W16
             r1 == (rp + W16 + DeltaOf(RSTACK(w))) % W16
             c1 == Transfers(core, w, s1, r1, tos, n0)
         IN  /\ sp' = s1
             /\ rp' = r1
             /\ \A a \in (DOMAIN core') \cup (DOMAIN c1) : Rd(core', a) = Rd(c1, a)
             /\ pc' = IF BitAnd(w, R_TO_PC) # 0 THEN r0 \div 2 ELSE (pc + 1) % MAX_PROGRAM
             /\ ALU_OP(w) = ALU_OP_T => tos' = tos
             /\ ALU_OP(w) = ALU_OP_N => tos' = n0
             /\ ALU_OP(w) = ALU_OP_R => tos' = r0
             /\ ALU_OP(w) = ALU_OP_T_PLUS_N => tos' = (tos + n0) % W16
             /\ ALU_OP(w) = ALU_OP_T_INVERT => tos' = 65535 - tos
             /\ ALU_OP(w) = ALU_OP_RDEPTH => tos' = (rp + W16 - RETURN_STACK_START) % W16
             /\ ALU_OP(w) = ALU_OP_T_LOAD => tos' = Rd(core, tos \div 2)]_vars

\* the word with T->R, T->N and both deltas -2 has run from sp and rp one
\* above their start values: tos is the old return stack top, and the old tos
\* is in both cells one below the start values
C21_Witness ==
    /\ phase = "run" /\ steps = 1
    /\ pc = START_ADDR + 1
    /\ ALU_OP(Rd(core, START_ADDR)) = ALU_OP_R
    /\ DSTACK(Rd(core, START_ADDR)) = DELTA_N2 /\ RSTACK(Rd(core, START_ADDR)) = DELTA_N2
    /\ sp = VARIABLE_STACK_START - 1
    /\ rp = RETURN_STACK_START - 1
    /\ Rd(core, sp) = 65535 /\ Rd(core, rp) = 65535
    /\ tos = 2 * VmTarget


\* a step that assembles a statement of this kind without an error
StmtStep(ops) ==
    /\ phase = "asm" /\ phase' = "asm"
    /\ Len(src') = Len(src) + 1
    /\ src'[Len(src')].op \in ops

\* the holes of the open if and else frames: cells still to be patched
OpenHoles == {ctl[i].h : i \in {j \in 1 .. Len(ctl) : ctl[j].k \in {"if", "else"}}}

\* the cell an instruction or call statement stands for
CellOf(st) == IF st.op = "instruction" THEN st.tok.number ELSE OP_CALL + st.tok.number

\* C22: at "else" the 0BRANCH of the "if" is patched to the cell after the
\* BRANCH hole, which is where the else part starts; at "then" the open hole
\* is patched, as 0BRANCH after "if" and as BRANCH after "else", to the cell
\* the next statement is assembled to.  In both optimization modes a patched
\* cell lies below the fence and no cell below the fence changes afterwards,
\* pc never decreases, and the first instruction after "if", "else" or "then"
\* occupies the cell the patch refers to
C22_IfElseThen ==
    [][/\ StmtStep({"else"}) =>
            /\ Rd(core', Top.h) = OP_0BRANCH + (pc + 1)
            /\ ctl'[Len(ctl')] = Frame("else", pc)
            /\ pc' = pc + 1
            /\ Top.h < fence'
       /\ StmtStep({"then"}) =>
            /\ Rd(core', Top.h) = (IF Top.k = "if" THEN OP_0BRANCH ELSE OP_BRANCH) + pc
            /\ pc' = pc
            /\ Top.h < fence'
       /\ \A a \in DOMAIN core : (a < fence /\ a \notin OpenHoles) => Rd(core', a) = core[a]
       /\ pc' >= pc
       /\ (src # <<>> /\ Last.op \in {"if", "else", "then"}
           /\ StmtStep({"instruction", "call"}))
          => (Rd(core', pc) = CellOf(src'[Len(src')]) /\ pc' = pc + 1)]_vars

\* ".mode 2  if dup else dup then exit" is the five cells 0BRANCH 11, dup,
\* BRANCH 12, dup, exit
C22_Witness ==
    /\ OptimizationOn
    /\ phase = "asm"
    /\ Len(src) = 7
    /\ src[2].op = "if" /\ src[4].op = "else" /\ src[6].op = "then"
    /\ ctl = <<>>
    /\ Rd(core, START_ADDR) = OP_0BRANCH + START_ADDR + 3
    /\ Rd(core, START_ADDR + 1) = CODE_DUP
    /\ Rd(core, START_ADDR + 2) = OP_BRANCH + START_ADDR + 4
    /\ Rd(core, START_ADDR + 3) = CODE_DUP
    /\ Rd(core, START_ADDR + 4) = CODE_EXIT
    /\ pc = START_ADDR + 5


\* the ':' and ';' tokens among the tokens of a lexer
DefTokens(l) == SelectSeq(l.tokens, LAMBDA t : t.type \in {LEX_DEFINE, LEX_ENDDEFINE})

Alternates(ts) ==
    \A j \in 1 .. Len(ts) : ts[j].type = (IF j % 2 = 1 THEN LEX_DEFINE ELSE LEX_ENDDEFINE)

RECURSIVE SkipSpace(_)
SkipSpace(inp) == IF inp # <<>> /\ isspace(Head(inp)) THEN SkipSpace(Tail(inp)) ELSE inp

\* the run of graphical characters at the head of an input
RECURSIVE Run(_)
Run(inp) == IF inp # <<>> /\ isgraph(Head(inp)) THEN <<Head(inp)>> \o Run(Tail(inp)) ELSE <<>>

\* the word the next call of lexer() meets first
NextWord == Run(SkipSpace(lex.input))

\* C23: the ':' and ';' tokens the lexer returns alternate, starting with ':';
\* in_definition is set exactly when the last of them is ':'; a ':' met while
\* in_definition is set and a ';' met while it is clear are syntax errors, on
\* which parse returns NULL and no token is returned; otherwise ':' sets the
\* flag and ';' clears it
C23_DefinitionProtocol ==
    [][/\ Alternates(DefTokens(lex'))
       /\ lex'.in_definition <=> (Len(DefTokens(lex')) % 2 = 1)
       /\ ((NextWord = <<58>> /\ lex.in_definition) \/ (NextWord = <<59>> /\ ~lex.in_definition))
          => (phase' = "parse_null" /\ lex' = lex)
       /\ (NextWord = <<58>> /\ ~lex.in_definition)
          => /\ phase' = "parse"
             /\ lex'.tokens = Append(lex.tokens, token_new(LEX_DEFINE, <<>>, 0))
             /\ lex'.in_definition
       /\ (NextWord = <<59>> /\ lex.in_definition)
          => /\ phase' = "parse"
             /\ lex'.tokens = Append(lex.tokens, token_new(LEX_ENDDEFINE, <<>>, 0))
             /\ ~lex'.in_definition
       /\ phase' = "parsed" => lex'.tokens[Len(lex'.tokens)].type = LEX_EOI]_vars

\* ": ; :" was lexed to its end
C23_Witness ==
    /\ phase = "parsed"
    /\ Len(lex.tokens) = 4
    /\ lex.tokens[1].type = LEX_DEFINE
    /\ lex.tokens[2].type = LEX_ENDDEFINE
    /\ lex.tokens[3].type = LEX_DEFINE
    /\ lex.in_definition


\* the token a word is: a label when it ends in ':' after another character,
\* an identifier otherwise (no keyword and no number begins with '(')
WordToken(w) ==
    IF Len(w) > 1 /\ w[Len(w)] = 58
    THEN token_new(LEX_LABEL, SubSeq(w, 1, Len(w) - 1), 0)
    ELSE token_new(LEX_IDENTIFIER, w, 0)

\* C24 as stated: a '(' followed by a character that is not whitespace begins
\* a word: the lexer returns one token whose text is the run of graphical
\* characters from that '(' on, stored from index 0 of l->id, a label or an
\* identifier by the usual rule; a '(' followed by whitespace begins a comment
\* that ends at the next ')', and a comment without one is a syntax error
C24_ParenWord ==
    [][LET inp == SkipSpace(lex.input)
           w   == Run(inp)
       IN  (phase = "parse" /\ Len(inp) >= 2 /\ Head(inp) = 40) =>
             IF ~isspace(inp[2])
             THEN /\ phase' = "parse"
                  /\ lex'.tokens = Append(lex.tokens, WordToken(w))
                  /\ lex'.input = SubSeq(inp, Len(w) + 1, Len(inp))
                  /\ \A j \in 1 .. Len(WordToken(w).id) : Rd(lex'.id, j - 1) = w[j]
             ELSE LET c == SkipTo(Tail(Tail(inp)), 41)
                  IN  IF ~c.found THEN phase' = "parse_null"
                      ELSE \E i \in Uninit :
                              lex' = LET r == lexer([lex EXCEPT !.input = c.rest], i)
                                     IN  IF r.st = "ok"
                                         THEN [r.L EXCEPT !.tokens = Append(@, r.tok)]
                                         ELSE lex]_vars


\* the mode in force when statement k of the source l is assembled
RECURSIVE ModeAt(_, _)
ModeAt(l, k) ==
    IF k <= 1 THEN MODE_NORMAL
    ELSE IF l[k - 1].op = "mode" THEN l[k - 1].tok.number
    ELSE ModeAt(l, k - 1)

HeadersOn(md) == md % 2 = 1

\* the .built-in directives of l assembled with word headers enabled
Expansions(l) == {k \in 1 .. Len(l) : l[k].op = "built-in" /\ HeadersOn(ModeAt(l, k))}

BuiltInStep == phase = "asm" /\ src' # src /\ src'[Len(src')].op = "built-in"

\* C25 as stated: every .built-in after the first of the pass is an assembly
\* error, whatever the mode is at either directive
C25_SecondBuiltInErrors ==
    [][(BuiltInStep /\ \E k \in 1 .. Len(src) : src[k].op = "built-in")
        => phase' = "error"]_vars

\* C25 amended: a .built-in is an assembly error exactly when word headers are
\* enabled at it and an earlier .built-in of the pass was assembled with word
\* headers enabled; with word headers disabled it is neither an error nor an
\* expansion and leaves memory, pc, pwd, the symbol table and the flag as they were;
\* the flag is set exactly by the directives assembled with word headers enabled
C25_BuiltInOnce ==
    [][BuiltInStep =>
        /\ phase' = "error" <=> (HeadersOn(mode) /\ Expansions(src) # {})
        /\ built_in_words_defined = (Expansions(src) # {})
        /\ built_in_words_defined' = (Expansions(src') # {})
        /\ ~HeadersOn(mode) =>
              /\ phase' = "asm"
              /\ <<core, pc, pwd, fence, symbols>>' = <<core, pc, pwd, fence, symbols>>
        /\ phase' = "error" =>
              <<core, pc, pwd, fence, symbols>>' = <<core, pc, pwd, fence, symbols>>
        /\ (HeadersOn(mode) /\ Expansions(src) = {}) => pc' > pc]_vars

\* .built-in .mode 1 .built-in .built-in: the first is skipped, the second
\* expands the list, the third is the error
C25_Witness ==
    /\ Len(src) = 4
    /\ src[1].op = "built-in"
    /\ src[2] = St("mode", TokLit(MODE_COMPILE_WORD_HEADER), NoTok, 0)
    /\ src[3].op = "built-in"
    /\ src[4].op = "built-in"
    /\ phase = "error"
    /\ symbol_table_lookup(symbols, Name_doVar) # 0

\* a .built-in that expands the list and completes
ExpandStep == BuiltInStep /\ HeadersOn(mode) /\ ~built_in_words_defined /\ phase' = "asm"

Compiled(w) == w.compile

\* the symbols added by the step
NewSymbols == SubSeq(symbols', Len(symbols) + 1, Len(symbols'))

\* the entries ws[k], ... laid out in c from cell s on with the word pointer pw:
\* an entry that is not hidden starts with a header (the link pw with the inline
\* flag in bit 15, then the packed name); its symbol is a call to the cell after
\* that; there its code words stand, followed by CODE_EXIT, a cell of its own or,
\* with optimization on, merged into the last code word; the layout ends at pc'
\* with the word pointer pwd'
RECURSIVE ExpansionOk(_, _, _, _, _, _)
ExpansionOk(c, ws, syms, k, s, pw) ==
    IF k > Len(ws) THEN s = pc' /\ pw = pwd'
    ELSE LET w   == ws[k]
             nc  == NameCells(w.name)
             v   == IF w.hidden THEN s ELSE s + 1 + Len(nc)
             n   == Len(w.code)
             sep == Rd(c, v + n - 1) = w.code[n] /\ Rd(c, v + n) = CODE_EXIT
             mrg == /\ BitAnd(mode, MODE_OPTIMIZATION_ON) # 0
                    /\ Rd(c, v + n - 1) = BitOr(w.code[n], CODE_EXIT)
         IN  /\ k <= Len(syms)
             /\ syms[k] = [id |-> w.name, value |-> v, type |-> "call",
                           hidden |-> w.hidden]
             /\ ~w.hidden =>
                   /\ Rd(c, s) = pw + (IF w.inline_bit THEN 32768 ELSE 0)
                   /\ \A j \in 1 .. Len(nc) : Rd(c, s + j) = nc[j]
             /\ \A j \in 1 .. n - 1 : Rd(c, v + j - 1) = w.code[j]
             /\ sep \/ mrg
             /\ ExpansionOk(c, ws, syms, k + 1, IF sep THEN v + n + 1 ELSE v + n,
                            IF w.hidden THEN pw ELSE 2 * s)

\* C26 as stated: every entry of the list, compiled or not, becomes a call symbol
\* at its expansion
C26_AllEntriesInserted ==
    [][ExpandStep =>
         \E x \in XTables :
            /\ Len(symbols') = Len(symbols) + Len(built_in_words(x))
            /\ ExpansionOk(core', built_in_words(x), NewSymbols, 1, pc, pwd)]_vars

\* C26 amended: the entries with compile=true, in the order of the list, are each
\* inserted as a call symbol whose value is the address of its expansion (the
\* code words and CODE_EXIT as generate emits it), with a header exactly when the
\* entry is not hidden; an entry with compile=false is skipped: no header, no
\* symbol, no expansion
C26_BuiltInExpansion ==
    [][ExpandStep =>
         \E x \in XTables :
            LET ws == SelectSeq(built_in_words(x), Compiled)
            IN  /\ Len(symbols') = Len(symbols) + Len(ws)
                /\ SubSeq(symbols', 1, Len(symbols)) = symbols
                /\ ExpansionOk(core', ws, NewSymbols, 1, pc, pwd)
                /\ \A i \in 1 .. Len(built_in_words(x)) :
                      ~built_in_words(x)[i].compile =>
                          symbol_table_lookup(symbols', built_in_words(x)[i].name) = 0
                /\ \A a \in DOMAIN core : a < pc => Rd(core', a) = core[a]
                /\ built_in_words_defined']_vars

\* .mode 3 .built-in with the table of dup (compiled) and invert (not compiled)
C26_Witness ==
    /\ phase = "asm"
    /\ Len(src) = 2
    /\ src[1] = St("mode", TokLit(MODE_COMPILE_WORD_HEADER + MODE_OPTIMIZATION_ON), NoTok, 0)
    /\ Last.op = "built-in"
    /\ built_in_words_defined
    /\ symbol_table_lookup(symbols, Name_dup) # 0
    /\ symbol_table_lookup(symbols, Name_invert) = 0
    /\ LET d == symbols[symbol_table_lookup(symbols, Name_dup)]
           k == symbols[symbol_table_lookup(symbols, Name_doConst)]
       IN  /\ d.type = "call" /\ ~d.hidden /\ k.hidden
           /\ Rd(core, d.value) = CODE_DUP
           /\ Rd(core, d.value + 1) = CODE_EXIT
           /\ Rd(core, d.value - 3) = 32768
           /\ pwd = 2 * (d.value - 3)
           /\ Rd(core, k.value + 1) = BitOr(CODE_LOAD, CODE_EXIT)

\* the link field of the header cell a: the bits below the flag bits
Link(c, a) == Rd(c, a) % 16384

\* the header cells met by following the links from the word pointer pw until 0
RECURSIVE Chain(_, _, _)
Chain(c, pw, fuel) ==
    IF pw = 0 \/ fuel = 0 THEN <<>>
    ELSE <<pw \div 2>> \o Chain(c, Link(c, pw \div 2), fuel - 1)

\* the statement emits one header
EmitsHeader(st) ==
    CASE st.op = "define" -> st.bits % 2 = 0
      [] st.op \in {"constant", "variable"} -> built_in_words_defined /\ st.bits % 2 = 0
      [] OTHER -> FALSE

LocationStep == phase = "asm" /\ src' # src /\ src'[Len(src')].op = "location"

\* C28: pack_string writes the length in the low byte and the first character
\* in the high byte of a first cell, then the other characters two per cell,
\* the earlier one in the low byte, 1 + ceil((l - 1) / 2) cells for l >= 1, so
\* that the cells give back l and the string; a string of more than 255
\* characters is an error and no cell is written
C28_NamePacking ==
    [][(LocationStep /\ src'[Len(src')].val.type = "string") =>
         LET str == src'[Len(src')].val.id
             l   == Len(str)
         IN  IF l > 255
             THEN phase' = "error" /\ core' = core /\ pc' = pc
             ELSE /\ phase' = "asm"
                  /\ Rd(core', pc) % 256 = l
                  /\ Rd(core', pc) \div 256 = CharAt(str, 0)
                  /\ \A j \in 1 .. l - 1 :
                        (IF j % 2 = 1 THEN Rd(core', pc + (j + 1) \div 2) % 256
                         ELSE Rd(core', pc + j \div 2) \div 256) = str[j + 1]
                  /\ pc' = pc + 1 + (l \div 2)
                  /\ l % 2 = 0 /\ l > 0 => Rd(core', pc' - 1) \div 256 = 0]_vars

JumpStep ==
    phase = "asm" /\ src' # src /\ src'[Len(src')].op \in {"branch", "0branch", "call"}

\* the kind the instruction predicates give a word
Kind(w) ==
    CASE IS_LITERAL(w) -> "literal"
      [] IS_ALU_OP(w) -> "alu"
      [] IS_CALL(w) -> "call"
      [] IS_0BRANCH(w) -> "0branch"
      [] IS_BRANCH(w) -> "branch"

\* C29: the word emitted for an accepted branch, 0branch or call is of the kind
\* asked for and has the target in its 13-bit address field; a target beyond the
\* last program address is an error
C29_JumpEncoding ==
    [][JumpStep =>
         LET st == src'[Len(src')]
             i  == symbol_table_lookup(symbols, st.tok.id)
             t  == IF st.tok.type = "literal" THEN st.tok.number
                   ELSE IF i = 0 THEN 0 ELSE symbols[i].value
         IN  (st.tok.type = "literal" \/ i # 0) =>
                /\ phase' = "asm" =>
                      /\ pc' = pc + 1
                      /\ Kind(Rd(core', pc)) = st.op
                      /\ Rd(core', pc) % 8192 = t
                /\ t > MAX_PROGRAM - 1 => phase' = "error"]_vars

\* the cells written through hole and fix as data: the value cells of variables
\* and locations (for a string the cell with its length), the header cells, the
\* cells of the names packed after them, and the value cells of constants (the
\* cell after the call of doConst)
ValueCells == {symbols[i].value \div 2 : i \in {j \in 1 .. Len(symbols) : symbols[j].type = "variable"}}

HeaderCells == {Chain(core, pwd, pc)[i] : i \in 1 .. Len(Chain(core, pwd, pc))}

PackedCells == UNION {h + 1 .. h + 1 + ((Rd(core, h + 1) % 256) \div 2) : h \in HeaderCells}

ConstantCells ==
    LET dc == symbol_table_lookup(symbols, Name_doConst)
    IN  IF dc = 0 THEN {}
        ELSE {a \in START_ADDR + 1 .. pc - 1 : Rd(core, a - 1) = OP_CALL + symbols[dc].value}

DataCells == ValueCells \cup HeaderCells \cup PackedCells \cup ConstantCells

\* C30: no statement that follows changes a cell that was written as data
C30_DataCellsKept ==
    [][(phase = "asm" /\ src' # src) =>
          \A a \in DataCells : Rd(core', a) = Rd(core, a)]_vars

\* C31: no statement calls here() or hole() with pc at or past MAX_PROGRAM, so
\* that no pass ends in a failed assertion: an overflow of pc is an assembly error
C31_OverflowIsError ==
    /\ phase # "abort"
    /\ (phase = "asm" /\ src # <<>> /\ Last.op \in {"label", "if"}) => pc <= MAX_PROGRAM

\* the indices of h->core that the next iteration of h2_run uses
UsedIndices ==
    LET m == [core |-> core, pc |-> pc, tos |-> tos, sp |-> sp, rp |-> rp]
        w == Rd(core, pc)
    IN  {pc} \cup
        (IF ~InCore(pc) THEN {}
         ELSE IF IS_LITERAL(w) THEN {U16(sp + 1)}
         ELSE IF IS_ALU_OP(w)
         THEN {sp} \cup (IF BitAnd(w, R_TO_PC) # 0 THEN {rp} ELSE {})
                   \cup (IF ALU_OP(w) = ALU_OP_BYE THEN {} ELSE alu_indices(m, w))
         ELSE IF IS_CALL(w) THEN {U16(rp + 1)}
         ELSE IF IS_0BRANCH(w) THEN {sp}
         ELSE {})

\* C32: in every state reached from the initial state of the machine every index
\* the next step uses (pc, sp, rp, tos >> 1) is below MAX_MEMORY / 2
C32_IndicesInMemory == phase = "run" => \A a \in UsedIndices : InCore(a)

\* the instruction at pc is an ALU instruction whose operation is BYE
AtBye == InCore(pc) /\ IS_ALU_OP(Rd(core, pc)) /\ ALU_OP(Rd(core, pc)) = ALU_OP_BYE

\* C33: h2_run returns only at a BYE, with tos as its value and with pc, tos, sp,
\* rp, memory, the output and the block file as they were before the BYE; called
\* again on the state it returned from it returns the same value in its first
\* iteration and again changes nothing
C33_ByeCommitsNothing ==
    [][/\ (phase = "run" /\ phase' = "returned")
            => /\ AtBye
               /\ ret' = tos
               /\ UNCHANGED <<core, pc, tos, sp, rp, out, block, rx>>
       /\ phase = "returned"
            => /\ AtBye
               /\ phase' = "returned"
               /\ ret' = ret
               /\ steps' = steps + 1
               /\ UNCHANGED <<core, pc, tos, sp, rp, out, block, rx>>]_vars

\* h2_run has returned from a BYE that carries every delta and flag, the last
\* time from a call made on the state an earlier call returned from
C33_Witness ==
    /\ phase = "returned"
    /\ steps = MaxSteps
    /\ Rd(core, pc) = ByeAll
    /\ ret = tos
    /\ tos = 65535
    /\ pc = VmTarget

\* the VM has been entered: h2_run was called in run mode
VmEntered == phase \in {"run", "returned", "exited", "undefined"}

\* C34: run mode enters the VM only after a load that reported success, and
\* before the first instruction the memory holds the cells of the image that
\* assemble mode wrote
C34_CrossModeImage ==
    VmEntered
        => /\ load_r = 0
           /\ steps = 0 => \A a \in 0 .. (Len(block.bytes) \div 2) - 1 :
                               Rd(core, a) = BlockCell(a)

====
